---- MODULE Spec2Model ----
(***************************************************************************)
(* A model of the conceptOntology core: the RDF loader / store             *)
(* (src/src/ontology/loader.py), the SHACL validation report and           *)
(* validator (src/src/ontology/validator.py) and the SPARQL query engine   *)
(* (src/src/ontology/query.py).                                            *)
(*                                                                         *)
(* Text is modelled character by character: a Python str is a sequence of  *)
(* one-character strings, and the str methods the code calls (split,       *)
(* strip, rstrip, startswith, endswith, count, in) are operators over such *)
(* sequences.  A path is the sequence of its "/"-separated components.     *)
(***************************************************************************)
EXTENDS Naturals, Sequences, FiniteSets, TLC

VARIABLES
    fs,                 \* the file system: normalised path -> entry
    triples,            \* RDFLoader.triples: list of {file, content} records
    loaded_files,       \* RDFLoader.loaded_files
    namespaces,         \* RDFLoader.namespaces: prefix -> namespace
    ret,                \* the last loader call: its arguments and its outcome
    report,             \* a ValidationReport a caller builds with add_result
    rdf_loader,         \* SHACLValidator.rdf_loader: is a loader attached
    shapes_data,        \* SHACLValidator.shapes_data
    loaded_shape_files, \* SHACLValidator.loaded_shape_files
    validation_count,   \* SHACLValidator.validation_count
    vret,               \* the last validator call: its arguments and its outcome
    engine,             \* the SPARQLQueryEngine: its fields
    qret,               \* the last engine call: its arguments and its outcome
    returned,           \* execute invocations that returned, since the last reset
    held,               \* a report a caller keeps, and the lists its fields refer to
    last,               \* the component whose operation ran last
    loading             \* a load_file call under way in a second thread

vars == <<fs, triples, loaded_files, namespaces, ret, report, rdf_loader,
          shapes_data, loaded_shape_files, validation_count, vret, engine,
          qret, returned, held, last, loading>>

loaderVars == <<triples, loaded_files, namespaces>>
validatorVars == <<rdf_loader, shapes_data, loaded_shape_files, validation_count>>
queryVars == <<engine, qret, returned>>

(***************************************************************************)
(* Bounds of the model.                                                    *)
(***************************************************************************)
MaxLoaded == 2       \* loaded_files never grows beyond this length
MaxBatch == 2        \* longest list handed to load_files
MaxResults == 3      \* longest result list of a hand-built report
MaxValidations == 2  \* validation_count is capped here
MaxShapes == 2       \* loaded_shape_files never grows beyond this length
MaxQueries == 2      \* query_count is capped here
MaxElapsed == 2      \* the longest time, in seconds, a call takes

(***************************************************************************)
(* Python str methods over character sequences.                            *)
(***************************************************************************)
DQ == "\""
BSL == "\\"
NL == "\n"
WS == {" ", "\t"}

SetMin(S) == CHOOSE m \in S : \A n \in S : m <= n

RECURSIVE lstrip(_, _)
lstrip(s, cs) ==
    IF s # <<>> /\ Head(s) \in cs THEN lstrip(Tail(s), cs) ELSE s

RECURSIVE rstrip(_, _)
rstrip(s, cs) ==
    IF s # <<>> /\ s[Len(s)] \in cs
    THEN rstrip(SubSeq(s, 1, Len(s) - 1), cs)
    ELSE s

strip(s, cs) == rstrip(lstrip(s, cs), cs)

startswith(s, p) == Len(s) >= Len(p) /\ SubSeq(s, 1, Len(p)) = p

endswith(s, p) == Len(s) >= Len(p) /\ SubSeq(s, Len(s) - Len(p) + 1, Len(s)) = p

count(s, c) == Cardinality({i \in 1..Len(s) : s[i] = c})

contains(s, sub) ==
    \E i \in 1..(Len(s) + 1) :
        i + Len(sub) - 1 <= Len(s) /\ SubSeq(s, i, i + Len(sub) - 1) = sub

\* str.split(sep) for a one-character sep: empty pieces are kept.
RECURSIVE split_sep(_, _)
split_sep(s, c) ==
    LET at == {i \in 1..Len(s) : s[i] = c} IN
    IF at = {} THEN <<s>>
    ELSE LET k == SetMin(at) IN
         <<SubSeq(s, 1, k - 1)>> \o split_sep(SubSeq(s, k + 1, Len(s)), c)

\* str.split(sep, 1): at most one split, at the first sep.
split_once(s, c) ==
    LET at == {i \in 1..Len(s) : s[i] = c} IN
    IF at = {} THEN <<s>>
    ELSE LET k == SetMin(at) IN
         <<SubSeq(s, 1, k - 1), SubSeq(s, k + 1, Len(s))>>

\* str.split(): runs of whitespace separate, no empty pieces.
RECURSIVE split_ws(_)
split_ws(s) ==
    LET t == lstrip(s, WS) IN
    IF t = <<>> THEN <<>>
    ELSE LET at == {i \in 1..Len(t) : t[i] \in WS}
             k == IF at = {} THEN Len(t) + 1 ELSE SetMin(at)
         IN <<SubSeq(t, 1, k - 1)>> \o split_ws(SubSeq(t, k, Len(t)))

\* sep.join(pieces)
RECURSIVE join(_, _)
join(pieces, sep) ==
    IF pieces = <<>> THEN <<>>
    ELSE IF Len(pieces) = 1 THEN pieces[1]
    ELSE pieces[1] \o sep \o join(Tail(pieces), sep)

(***************************************************************************)
(* The Turtle sources the model loads.  Each line is built from its parts, *)
(* so that a declaration's delimiters, spacing and period vary one by one. *)
(***************************************************************************)
AtPrefix == <<"@", "p", "r", "e", "f", "i", "x">>
Ex == <<"e", "x">>
IriE == <<"h", "t", "t", "p", ":", "/", "/", "e", "/">>
IriF == <<"h", "t", "t", "p", ":", "/", "/", "f", "/">>
TripleQuote == <<DQ, DQ, DQ>>

\* "@prefix p: <iri> ." with each delimiter, the gap before the period and
\* the period given as (possibly empty) character sequences.
PrefixDecl(p, open, iri, close, gap, dot) ==
    AtPrefix \o <<" ">> \o p \o <<":", " ">> \o open \o iri \o close \o gap \o dot

DeclSpaced == PrefixDecl(Ex, <<"<">>, IriE, <<">">>, <<" ">>, <<".">>)
DeclTight == PrefixDecl(Ex, <<"<">>, IriE, <<">">>, <<>>, <<".">>)
DeclNoOpen == PrefixDecl(Ex, <<>>, IriE, <<">">>, <<" ">>, <<".">>)
DeclNoClose == PrefixDecl(Ex, <<"<">>, IriE, <<>>, <<" ">>, <<".">>)
DeclNoDot == PrefixDecl(Ex, <<"<">>, IriE, <<">">>, <<>>, <<>>)
DeclF == PrefixDecl(Ex, <<"<">>, IriF, <<">">>, <<" ">>, <<".">>)
DeclEmptyPrefix == PrefixDecl(<<>>, <<"<">>, IriE, <<">">>, <<" ">>, <<".">>)
DeclShort == AtPrefix \o <<" ">> \o Ex \o <<":">>

\* ex:A a ex:P .
TripleLine == Ex \o <<":", "A", " ", "a", " ">> \o Ex \o <<":", "P", " ", ".">>
\* ex:A ex:n <object> .
Stmt(object) == Ex \o <<":", "A", " ">> \o Ex \o <<":", "n", " ">> \o object
StrClosed == Stmt(<<DQ, "x", DQ, " ", ".">>)
StrOpen == Stmt(<<DQ, "x", " ", ".">>)
StrOpenBackslash == Stmt(<<DQ, "x", " ", BSL>>)
LongOpen == Stmt(TripleQuote \o <<"x">>)
LongThenOpen == Stmt(TripleQuote \o <<"x">> \o TripleQuote \o <<" ", DQ, "y", " ", ".">>)
Comment == <<"#", " ", DQ, "c">>

Lines2(a, b) == a \o <<NL>> \o b

SrcCore == Lines2(DeclSpaced, TripleLine)
SrcOneLine == DeclSpaced \o <<" ">> \o TripleLine
SrcTight == Lines2(DeclTight, TripleLine)
SrcNoOpen == Lines2(DeclNoOpen, TripleLine)
SrcNoClose == Lines2(DeclNoClose, TripleLine)
SrcNoDot == Lines2(DeclNoDot, TripleLine)
SrcShort == Lines2(DeclShort, TripleLine)
SrcRedeclared == Lines2(DeclSpaced, DeclF)
SrcF == Lines2(<<" ">> \o DeclF \o <<" ">>, TripleLine)
SrcEmptyPrefix == Lines2(DeclEmptyPrefix, <<>>)
SrcStrClosed == Lines2(Lines2(DeclSpaced, Comment), StrClosed)
SrcStrOpen == Lines2(DeclSpaced, StrOpen)
SrcStrOpenBackslash == Lines2(DeclSpaced, StrOpenBackslash)
SrcLongOpen == Lines2(DeclSpaced, LongOpen)
SrcLongThenOpen == Lines2(DeclSpaced, LongThenOpen)
SrcEmpty == <<>>

\* A file's content is held by name; Text gives its characters.
Sources ==
    {"Core", "OneLine", "Tight", "NoOpen", "NoClose", "NoDot", "Short",
     "Redeclared", "F", "EmptyPrefix", "StrClosed", "StrOpen",
     "StrOpenBackslash", "LongOpen", "LongThenOpen", "Empty"}

Text(content) ==
    CASE content = "Core" -> SrcCore
      [] content = "OneLine" -> SrcOneLine
      [] content = "Tight" -> SrcTight
      [] content = "NoOpen" -> SrcNoOpen
      [] content = "NoClose" -> SrcNoClose
      [] content = "NoDot" -> SrcNoDot
      [] content = "Short" -> SrcShort
      [] content = "Redeclared" -> SrcRedeclared
      [] content = "F" -> SrcF
      [] content = "EmptyPrefix" -> SrcEmptyPrefix
      [] content = "StrClosed" -> SrcStrClosed
      [] content = "StrOpen" -> SrcStrOpen
      [] content = "StrOpenBackslash" -> SrcStrOpenBackslash
      [] content = "LongOpen" -> SrcLongOpen
      [] content = "LongThenOpen" -> SrcLongThenOpen
      [] content = "Empty" -> SrcEmpty

(***************************************************************************)
(* Paths and the file system.  A path string is the sequence of its        *)
(* components; Path() drops the "." and empty components, as pathlib does  *)
(* ("./d/a.ttl" and "d//a.ttl" both become "d/a.ttl").                      *)
(***************************************************************************)
IsNamedComponent(c) == c \notin {".", ""}

\* str(Path(raw))
Path(raw) == SelectSeq(raw, IsNamedComponent)

PathA == <<"d", "a.ttl">>
PathB == <<"d", "b.ttl">>
PathDotA == <<".", "d", "a.ttl">>
PathU == <<"d", "u.ttl">>
PathN == <<"d", "n.txt">>
PathD == <<"d">>

RawPaths == {PathA, PathB, PathDotA, PathU, PathN, PathD}
Paths == {Path(raw) : raw \in RawPaths}

Missing == [kind |-> "missing"]
Directory == [kind |-> "dir"]
Unreadable == [kind |-> "unreadable"]
File(content) == [kind |-> "file", content |-> content]

\* d/ holds a.ttl and b.ttl (whose contents vary), an unreadable u.ttl and
\* a well-formed n.txt.
MkFs(a, b) ==
    [p \in Paths |->
        CASE p = PathA -> a
          [] p = PathB -> b
          [] p = PathU -> Unreadable
          [] p = PathN -> File("Core")
          [] OTHER -> Directory]

exists(fsys, p) == p \in DOMAIN fsys /\ fsys[p].kind # "missing"
is_file(fsys, p) == exists(fsys, p) /\ fsys[p].kind \in {"file", "unreadable"}

(***************************************************************************)
(* RDFLoader.                                                              *)
(***************************************************************************)
EmptyDict == [k \in {} |-> <<>>]

\* d[k] = v
DictSet(d, k, v) == [q \in DOMAIN d \cup {k} |-> IF q = k THEN v ELSE d[q]]

\* loader.py _validate_turtle_syntax, one line: does this line raise.
SyntaxErrorAt(rawline) ==
    LET line == strip(rawline, WS) IN
    IF line = <<>> \/ startswith(line, <<"#">>) THEN FALSE
    ELSE \/ /\ count(line, DQ) % 2 # 0
            /\ ~endswith(line, <<BSL>>)
            /\ ~contains(line, TripleQuote)
         \/ /\ startswith(line, AtPrefix)
            /\ LET parts == split_ws(line) IN
               \/ Len(parts) < 3
               \/ ~startswith(parts[3], <<"<">>)
               \/ ~endswith(rstrip(line, WS), <<".">>)

\* loader.py _validate_turtle_syntax, the loop over the lines: 0 when no
\* line raises, else the number of the first line that does.
FirstSyntaxError(text) ==
    LET lines == split_sep(text, NL)
        bad == {n \in 1..Len(lines) : SyntaxErrorAt(lines[n])}
    IN IF bad = {} THEN 0 ELSE SetMin(bad)

SyntaxChecked == [content \in Sources |-> FirstSyntaxError(Text(content))]

\* loader.py _validate_turtle_syntax: 0 when the content passes, else the
\* line at which TurtleSyntaxError is raised.
_validate_turtle_syntax(content) == SyntaxChecked[content]

\* loader.py _extract_namespaces, one line: the (prefix, namespace) pairs
\* the line registers (one or none).
ExtractLine(rawline) ==
    LET line == strip(rawline, WS) IN
    IF startswith(line, AtPrefix)
    THEN LET parts == split_ws(line) IN
         IF Len(parts) >= 3
         THEN LET prefix == rstrip(parts[2], {":"})
                  namespace == rstrip(strip(parts[3], {"<", ">"}), {"."})
              IN <<[prefix |-> prefix, namespace |-> namespace]>>
         ELSE <<>>
    ELSE <<>>

\* loader.py _extract_namespaces, the loop over the lines: what it
\* registers, in line order.
RECURSIVE ExtractLines(_)
ExtractLines(lines) ==
    IF lines = <<>> THEN <<>>
    ELSE ExtractLine(Head(lines)) \o ExtractLines(Tail(lines))

Extracted == [content \in Sources |-> ExtractLines(split_sep(Text(content), NL))]

\* self.namespaces[prefix] = namespace, for each registration in turn
RECURSIVE Register(_, _)
Register(ns, regs) ==
    IF regs = <<>> THEN ns
    ELSE Register(DictSet(ns, Head(regs).prefix, Head(regs).namespace), Tail(regs))

\* loader.py _extract_namespaces: the namespace table after the content's
\* @prefix lines were registered.
_extract_namespaces(ns, content) == Register(ns, Extracted[content])

\* The loader object: its three fields.
Loader(t, l, n) == [triples |-> t, loaded_files |-> l, namespaces |-> n]
NewLoader == Loader(<<>>, <<>>, EmptyDict)

\* a load_file that notes the file as loaded before its content is checked
load_file_tracking_early(L, fsys, file_path, validate) ==
    LET p == Path(file_path) IN
    IF ~exists(fsys, p) THEN [raised |-> "FileNotFoundError", L |-> L]
    ELSE IF ~is_file(fsys, p) THEN [raised |-> "FileNotFoundError", L |-> L]
    ELSE IF fsys[p].kind = "unreadable" THEN [raised |-> "RDFLoaderError", L |-> L]
    ELSE LET content == fsys[p].content IN
         IF validate /\ _validate_turtle_syntax(content) # 0
         THEN [raised |-> "TurtleSyntaxError",
               L |-> [L EXCEPT !.loaded_files = Append(@, p)]]
         ELSE [raised |-> "None",
               L |-> Loader(
                   Append(L.triples, [file |-> p, content |-> content]),
                   Append(L.loaded_files, p),
                   _extract_namespaces(L.namespaces, content))]

\* loader.py load_file: the exception raised ("None" when it returns True)
\* and the loader afterwards.
load_file(L, fsys, file_path, validate) ==
    LET p == Path(file_path) IN
    IF ~exists(fsys, p) THEN [raised |-> "FileNotFoundError", L |-> L]
    ELSE IF ~is_file(fsys, p) THEN [raised |-> "FileNotFoundError", L |-> L]
    ELSE IF fsys[p].kind = "unreadable" THEN [raised |-> "RDFLoaderError", L |-> L]
    ELSE LET content == fsys[p].content IN
         IF validate /\ _validate_turtle_syntax(content) # 0
         THEN [raised |-> "TurtleSyntaxError", L |-> L]
         ELSE [raised |-> "None",
               L |-> Loader(
                   Append(L.triples, [file |-> p, content |-> content]),
                   Append(L.loaded_files, p),
                   _extract_namespaces(L.namespaces, content))]

\* loader.py resolve_uri: the exception raised and the value returned.
resolve_uri(ns, prefixed_uri) ==
    IF ":" \notin {prefixed_uri[i] : i \in 1..Len(prefixed_uri)}
    THEN [raised |-> "None", value |-> prefixed_uri]
    ELSE LET parts == split_once(prefixed_uri, ":")
             prefix == parts[1]
             local_name == parts[2]
         IN IF prefix \notin DOMAIN ns
            THEN [raised |-> "NamespaceError", value |-> <<>>]
            ELSE [raised |-> "None", value |-> ns[prefix] \o local_name]

\* clear that forgets namespaces.clear()
clear_keeping_namespaces(L) == Loader(<<>>, <<>>, L.namespaces)

\* loader.py clear
clear(L) == NewLoader

\* loader.py get_triple_count
get_triple_count(L) == Len(L.loaded_files)

\* The loader as the variables hold it.
TheLoader == Loader(triples, loaded_files, namespaces)

SetLoader(L) ==
    /\ triples' = L.triples
    /\ loaded_files' = L.loaded_files
    /\ namespaces' = L.namespaces

\* the loop with "if not continue_on_error: raise" turned around: it goes
\* on after a failure and raises the last failure at the end
RECURSIVE load_files_loop_raising_late(_, _, _, _, _)
load_files_loop_raising_late(acc, fsys, rest, validate, continue_on_error) ==
    IF rest = <<>> THEN acc
    ELSE LET file_path == Head(rest)
             r == load_file(acc.L, fsys, file_path, validate)
             tried == Append(acc.attempted, file_path)
             next == IF r.raised = "None"
                     THEN [acc EXCEPT !.L = r.L,
                                      !.successful = Append(@, file_path),
                                      !.attempted = tried]
                     ELSE [acc EXCEPT !.failed = Append(@, file_path),
                                      !.attempted = tried,
                                      !.raised = IF continue_on_error THEN @ ELSE r.raised]
         IN load_files_loop_raising_late(next, fsys, Tail(rest), validate, continue_on_error)

\* the loop with an unconditional raise in the except branch
RECURSIVE load_files_loop_always_raising(_, _, _, _, _)
load_files_loop_always_raising(acc, fsys, rest, validate, continue_on_error) ==
    IF rest = <<>> THEN acc
    ELSE LET file_path == Head(rest)
             r == load_file(acc.L, fsys, file_path, validate)
             tried == Append(acc.attempted, file_path)
         IN IF r.raised = "None"
            THEN load_files_loop_always_raising(
                     [acc EXCEPT !.L = r.L,
                                 !.successful = Append(@, file_path),
                                 !.attempted = tried],
                     fsys, Tail(rest), validate, continue_on_error)
            ELSE [acc EXCEPT !.failed = Append(@, file_path),
                             !.attempted = tried,
                             !.raised = r.raised]

\* loader.py load_files, the for loop: acc holds the loader, the two result
\* lists, the paths load_file was called on, and the exception that left
\* the loop ("None" while it runs).
RECURSIVE load_files_loop(_, _, _, _, _)
load_files_loop(acc, fsys, rest, validate, continue_on_error) ==
    IF rest = <<>> THEN acc
    ELSE LET file_path == Head(rest)
             r == load_file(acc.L, fsys, file_path, validate)
             tried == Append(acc.attempted, file_path)
         IN IF r.raised = "None"
            THEN load_files_loop(
                     [acc EXCEPT !.L = r.L,
                                 !.successful = Append(@, file_path),
                                 !.attempted = tried],
                     fsys, Tail(rest), validate, continue_on_error)
            ELSE LET failed == [acc EXCEPT !.failed = Append(@, file_path),
                                            !.attempted = tried]
                 IN IF ~continue_on_error
                    THEN [failed EXCEPT !.raised = r.raised]
                    ELSE load_files_loop(failed, fsys, Tail(rest), validate,
                                         continue_on_error)

\* loader.py load_files: the exception raised, the (successful_files,
\* failed_files) returned when none is, the paths attempted, the loader
\* afterwards.
load_files(L, fsys, file_paths, validate, continue_on_error) ==
    LET end == load_files_loop(
                   [L |-> L, successful |-> <<>>, failed |-> <<>>,
                    attempted |-> <<>>, raised |-> "None"],
                   fsys, file_paths, validate, continue_on_error)
    IN IF end.raised = "None" THEN end
       ELSE [end EXCEPT !.successful = <<>>, !.failed = <<>>]

\* fnmatch of a file name against the glob patterns the model uses.
fnmatch(name, pattern) ==
    CASE pattern = "*.ttl" -> name \in {"a.ttl", "b.ttl", "u.ttl"}
      [] pattern = "*.txt" -> name \in {"n.txt"}
      [] OTHER -> FALSE

\* The entries Path.glob / Path.rglob yield for a pattern without a
\* directory part: the existing children of the directory whose names
\* match (rglob also descends; the modelled tree is one level deep).
GlobSet(fsys, dir, pattern, recursive) ==
    {p \in DOMAIN fsys :
        /\ exists(fsys, p)
        /\ Len(p) > Len(dir)
        /\ SubSeq(p, 1, Len(dir)) = dir
        /\ (recursive \/ Len(p) = Len(dir) + 1)
        /\ fnmatch(p[Len(p)], pattern)}

\* The orders in which the file system may enumerate a set of entries:
\* os.scandir promises none.
Enumerations(S) ==
    {e \in [1..Cardinality(S) -> S] : \A i, j \in 1..Cardinality(S) : e[i] = e[j] => i = j}

\* loader.py load_directory, given the order in which the directory was
\* enumerated.
load_directory(L, fsys, directory_path, pattern, recursive, validate, continue_on_error, file_paths) ==
    LET d == Path(directory_path)
        none == [L |-> L, successful |-> <<>>, failed |-> <<>>,
                 attempted |-> <<>>, raised |-> "None"]
    IN IF ~exists(fsys, d) THEN [none EXCEPT !.raised = "FileNotFoundError"]
       ELSE IF fsys[d].kind # "dir" THEN [none EXCEPT !.raised = "FileNotFoundError"]
       ELSE IF file_paths = <<>> THEN none
       ELSE load_files(L, fsys, file_paths, validate, continue_on_error)

(***************************************************************************)
(* Loader operations.                                                      *)
(***************************************************************************)
NoCall == [op |-> "none"]

\* no call of a second handler is under way
Idle == [at |-> "idle", file_path |-> <<>>, content |-> "None"]

WithinBound(L) == Len(L.loaded_files) <= MaxLoaded

othersUnchangedByLoader ==
    /\ last' = "loader"
    /\ UNCHANGED <<fs, report, rdf_loader, shapes_data, loaded_shape_files,
                   validation_count, vret, engine, qret, returned, held, loading>>

LoadFile(file_path, validate) ==
    LET r == load_file(TheLoader, fs, file_path, validate) IN
    /\ WithinBound(r.L)
    /\ SetLoader(r.L)
    /\ ret' = [op |-> "load_file", file_path |-> file_path,
               validate |-> validate, raised |-> r.raised]
    /\ othersUnchangedByLoader

LoadFiles(file_paths, validate, continue_on_error) ==
    LET r == load_files(TheLoader, fs, file_paths, validate, continue_on_error) IN
    /\ WithinBound(r.L)
    /\ SetLoader(r.L)
    /\ ret' = [op |-> "load_files", file_paths |-> file_paths,
               validate |-> validate, continue_on_error |-> continue_on_error,
               raised |-> r.raised, successful |-> r.successful,
               failed |-> r.failed, attempted |-> r.attempted]
    /\ othersUnchangedByLoader

LoadDirectory(directory_path, pattern, recursive, validate, continue_on_error) ==
    \E file_paths \in Enumerations(GlobSet(fs, Path(directory_path), pattern, recursive)) :
        LET r == load_directory(TheLoader, fs, directory_path, pattern, recursive,
                                validate, continue_on_error, file_paths) IN
        /\ WithinBound(r.L)
        /\ SetLoader(r.L)
        /\ ret' = [op |-> "load_directory", directory_path |-> directory_path,
                   pattern |-> pattern, validate |-> validate,
                   continue_on_error |-> continue_on_error,
                   raised |-> r.raised, successful |-> r.successful,
                   failed |-> r.failed, attempted |-> r.attempted]
        /\ othersUnchangedByLoader

ResolveUri(prefixed_uri) ==
    LET r == resolve_uri(namespaces, prefixed_uri) IN
    /\ ret' = [op |-> "resolve_uri", prefixed_uri |-> prefixed_uri,
               raised |-> r.raised, value |-> r.value]
    /\ UNCHANGED loaderVars
    /\ othersUnchangedByLoader

Clear ==
    /\ SetLoader(clear(TheLoader))
    /\ ret' = [op |-> "clear"]
    /\ othersUnchangedByLoader

\* A second request handler works on the same loader while the first one's
\* calls run: its load_file or clear takes effect statement by statement,
\* and nothing keeps the other handler's calls from running in between.
\* loading.at is the statement the call has reached.
othersUnchangedByHandler ==
    /\ last' = "loader"
    /\ UNCHANGED <<fs, report, rdf_loader, shapes_data, loaded_shape_files,
                   validation_count, vret, engine, qret, returned, held>>

\* loader.py load_file, up to the content read and validated
BeginLoad(file_path, validate) ==
    LET r == load_file(TheLoader, fs, file_path, validate) IN
    /\ loading.at = "idle"
    /\ WithinBound(r.L)
    /\ IF r.raised # "None"
       THEN /\ ret' = [op |-> "load_file", file_path |-> file_path,
                       validate |-> validate, raised |-> r.raised]
            /\ UNCHANGED loading
       ELSE /\ loading' = [at |-> "read", file_path |-> Path(file_path),
                           content |-> fs[Path(file_path)].content]
            /\ UNCHANGED ret
    /\ UNCHANGED loaderVars
    /\ othersUnchangedByHandler

\* loader.py load_file: self._extract_namespaces(content)
RegisterNamespaces ==
    /\ loading.at = "read"
    /\ namespaces' = _extract_namespaces(namespaces, loading.content)
    /\ loading' = [loading EXCEPT !.at = "registered"]
    /\ UNCHANGED <<triples, loaded_files, ret>>
    /\ othersUnchangedByHandler

\* loader.py load_file: self.triples.append(...)
AppendRecord ==
    /\ loading.at = "registered"
    /\ triples' = Append(triples, [file |-> loading.file_path,
                                   content |-> loading.content])
    /\ loading' = [loading EXCEPT !.at = "recorded"]
    /\ UNCHANGED <<loaded_files, namespaces, ret>>
    /\ othersUnchangedByHandler

\* loader.py load_file: self.loaded_files.append(...), and the return
AppendLoadedFile ==
    /\ loading.at = "recorded"
    /\ loaded_files' = Append(loaded_files, loading.file_path)
    /\ loading' = Idle
    /\ ret' = [op |-> "load_file", file_path |-> loading.file_path,
               validate |-> TRUE, raised |-> "None"]
    /\ UNCHANGED <<triples, namespaces>>
    /\ othersUnchangedByHandler

\* loader.py clear: self.triples.clear()
ClearTriples ==
    /\ loading.at = "idle"
    /\ triples' = <<>>
    /\ loading' = [Idle EXCEPT !.at = "triples cleared"]
    /\ UNCHANGED <<loaded_files, namespaces, ret>>
    /\ othersUnchangedByHandler

\* loader.py clear: self.loaded_files.clear()
ClearLoadedFiles ==
    /\ loading.at = "triples cleared"
    /\ loaded_files' = <<>>
    /\ loading' = [Idle EXCEPT !.at = "files cleared"]
    /\ UNCHANGED <<triples, namespaces, ret>>
    /\ othersUnchangedByHandler

\* loader.py clear: self.namespaces.clear(), and the return
ClearNamespaces ==
    /\ loading.at = "files cleared"
    /\ namespaces' = EmptyDict
    /\ loading' = Idle
    /\ ret' = [op |-> "clear"]
    /\ UNCHANGED <<triples, loaded_files>>
    /\ othersUnchangedByHandler

\* api.py get_triples: the loaded files and the namespaces it answers with
GetTriples ==
    /\ ret' = [op |-> "get_triples", loaded_files |-> loaded_files,
               namespaces |-> namespaces]
    /\ UNCHANGED <<loaderVars, loading>>
    /\ othersUnchangedByHandler

(***************************************************************************)
(* ValidationResult, ValidationReport and SHACLValidator.                  *)
(***************************************************************************)
VIOLATION == "http://www.w3.org/ns/shacl#Violation"
WARNING == "http://www.w3.org/ns/shacl#Warning"
INFO == "http://www.w3.org/ns/shacl#Info"
\* a severity IRI outside SeverityLevel
OtherSeverity == "http://www.w3.org/ns/shacl#Debug"

\* validator.py ValidationResult.__init__ (the timestamp is left out)
ValidationResult(focus_node, severity, source_shape) ==
    [focus_node |-> focus_node, result_path |-> "None", value |-> "None",
     message |-> "m", severity |-> severity, source_constraint |-> "None",
     source_shape |-> source_shape]

FocusNodes == {"ex:n1", "ex:n2"}
ShapeUris == {"ex:S1", "ex:S2"}
Severities == {VIOLATION, WARNING, INFO, OtherSeverity}
Results ==
    {ValidationResult(n, sev, sh) : n \in FocusNodes, sev \in Severities, sh \in ShapeUris}

\* validator.py ValidationReport.__init__ (the timestamp is left out)
ValidationReport(conforms) ==
    [conforms |-> conforms, results |-> <<>>, shapes_loaded |-> <<>>,
     data_sources |-> <<>>]

\* add_result with conforms recomputed from the result just added
add_result_recomputed(rep, result) ==
    [rep EXCEPT !.results = Append(@, result),
                !.conforms = (result.severity # VIOLATION)]

\* validator.py ValidationReport.add_result
add_result(rep, result) ==
    [rep EXCEPT !.results = Append(@, result),
                !.conforms = IF result.severity = VIOLATION THEN FALSE ELSE @]

\* validator.py ValidationReport.get_results_by_severity
get_results_by_severity(rep, severity) ==
    LET Has(r) == r.severity = severity IN SelectSeq(rep.results, Has)

\* validator.py ValidationReport.get_violations
get_violations(rep) == get_results_by_severity(rep, VIOLATION)

\* validator.py SHACLValidator.is_valid
is_valid(rep) == rep.conforms /\ Len(get_violations(rep)) = 0

\* The validator object: its fields (rdf_loader: is a loader attached).
Validator(a, sd, lsf, vc) ==
    [rdf_loader |-> a, shapes_data |-> sd, loaded_shape_files |-> lsf,
     validation_count |-> vc]

TheValidator == Validator(rdf_loader, shapes_data, loaded_shape_files, validation_count)

SetValidator(V) ==
    /\ rdf_loader' = V.rdf_loader
    /\ shapes_data' = V.shapes_data
    /\ loaded_shape_files' = V.loaded_shape_files
    /\ validation_count' = V.validation_count

\* validator.py load_shapes
load_shapes(V, fsys, file_path) ==
    LET p == Path(file_path) IN
    IF ~exists(fsys, p) THEN [raised |-> "ShapeLoadError", V |-> V]
    ELSE IF fsys[p].kind # "file" THEN [raised |-> "ShapeLoadError", V |-> V]
    ELSE [raised |-> "None",
          V |-> [V EXCEPT
                   !.shapes_data = Append(@, [file |-> p, content |-> fsys[p].content]),
                   !.loaded_shape_files = Append(@, p)]]

\* validator.py clear_shapes
clear_shapes(V) == [V EXCEPT !.shapes_data = <<>>, !.loaded_shape_files = <<>>]

\* Which list a field of a report refers to: a list of the report's own, or
\* the list a component holds under the name given.
OwnLists == [shapes_loaded |-> "own", data_sources |-> "own"]

\* handing out the list itself where the code hands out a copy
list_copy_aliasing(of) == of

\* list.copy(): a new list
list_copy(of) == "own"

\* loader.py get_loaded_files
get_loaded_files(of) == list_copy(of)

\* an evaluator that appends a finding to report.results directly
_simulate_validation_appending(rep) ==
    [rep EXCEPT !.results = Append(@, ValidationResult("ex:n1", VIOLATION, "ex:S1"))]

\* validator.py _simulate_validation: the placeholder adds no result.
_simulate_validation(rep) == rep

\* a validate that does not look for loaded shapes
validate_without_shapes_check(V, L, data_graph) ==
    IF data_graph = "None" /\ ~V.rdf_loader
    THEN [raised |-> "ValidationExecutionError", report |-> "None",
          refs |-> OwnLists, V |-> V]
    ELSE LET r0 == [ValidationReport(TRUE) EXCEPT !.shapes_loaded = V.loaded_shape_files]
             r1 == IF V.rdf_loader THEN [r0 EXCEPT !.data_sources = L.loaded_files] ELSE r0
             r2 == _simulate_validation(r1)
         IN [raised |-> "None", report |-> r2,
             refs |-> [shapes_loaded |-> list_copy("loaded_shape_files"),
                       data_sources |-> IF V.rdf_loader
                                        THEN get_loaded_files("loaded_files")
                                        ELSE OwnLists.data_sources],
             V |-> [V EXCEPT !.validation_count = @ + 1]]

\* validator.py validate: data_graph is "None" or a graph; L is the loader
\* the validator refers to.
validate(V, L, data_graph) ==
    IF V.shapes_data = <<>>
    THEN [raised |-> "ValidationExecutionError", report |-> "None",
          refs |-> OwnLists, V |-> V]
    ELSE IF data_graph = "None" /\ ~V.rdf_loader
    THEN [raised |-> "ValidationExecutionError", report |-> "None",
          refs |-> OwnLists, V |-> V]
    ELSE LET r0 == [ValidationReport(TRUE) EXCEPT !.shapes_loaded = V.loaded_shape_files]
             r1 == IF V.rdf_loader THEN [r0 EXCEPT !.data_sources = L.loaded_files] ELSE r0
             r2 == _simulate_validation(r1)
         IN [raised |-> "None", report |-> r2,
             refs |-> [shapes_loaded |-> list_copy("loaded_shape_files"),
                       data_sources |-> IF V.rdf_loader
                                        THEN get_loaded_files("loaded_files")
                                        ELSE OwnLists.data_sources],
             V |-> [V EXCEPT !.validation_count = @ + 1]]

\* a loop that puts each result it keeps in front of the ones kept before
RECURSIVE FilterResults_newest_first(_, _, _, _)
FilterResults_newest_first(node_report, results, node_uri, shape_uri) ==
    IF results = <<>> THEN node_report
    ELSE LET result == Head(results)
             next == IF /\ result.focus_node = node_uri
                        /\ (shape_uri = "None" \/ result.source_shape = shape_uri)
                     THEN [add_result(node_report, result) EXCEPT
                              !.results = <<result>> \o node_report.results]
                     ELSE node_report
         IN FilterResults_newest_first(next, Tail(results), node_uri, shape_uri)

\* validator.py validate_node, the loop over full_report.results
RECURSIVE FilterResults(_, _, _, _)
FilterResults(node_report, results, node_uri, shape_uri) ==
    IF results = <<>> THEN node_report
    ELSE LET result == Head(results)
             next == IF /\ result.focus_node = node_uri
                        /\ (shape_uri = "None" \/ result.source_shape = shape_uri)
                     THEN add_result(node_report, result)
                     ELSE node_report
         IN FilterResults(next, Tail(results), node_uri, shape_uri)

\* validator.py validate_node
validate_node(V, L, node_uri, shape_uri) ==
    LET full == validate(V, L, "None") IN
    IF full.raised # "None"
    THEN [raised |-> "ValidationExecutionError", report |-> "None",
          refs |-> OwnLists, V |-> full.V]
    ELSE LET node_report ==
                 [ValidationReport(TRUE) EXCEPT
                     !.shapes_loaded = full.report.shapes_loaded,
                     !.data_sources = full.report.data_sources]
         IN [raised |-> "None",
             report |-> FilterResults(node_report, full.report.results, node_uri, shape_uri),
             refs |-> full.refs,
             V |-> full.V]

\* validator.py validate_node, from the full report on: the node report it
\* builds out of a given full_report
node_report_of(full_report, node_uri, shape_uri) ==
    LET node_report ==
            [ValidationReport(TRUE) EXCEPT
                !.shapes_loaded = full_report.shapes_loaded,
                !.data_sources = full_report.data_sources]
    IN FilterResults(node_report, full_report.results, node_uri, shape_uri)

\* validator.py ValidationReport.get_summary (the timestamp is left out)
ValidationReport_get_summary(rep) ==
    [conforms |-> rep.conforms,
     total_results |-> Len(rep.results),
     violation_count |-> Len(get_results_by_severity(rep, VIOLATION)),
     warning_count |-> Len(get_results_by_severity(rep, WARNING)),
     info_count |-> Len(get_results_by_severity(rep, INFO)),
     shapes_loaded |-> Len(rep.shapes_loaded),
     data_sources |-> Len(rep.data_sources)]

\* round(part / total * 100, 2), in hundredths of a percent
percentage(part, total) ==
    IF total = 0 THEN 0 ELSE (2 * part * 10000 + total) \div (2 * total)

\* validator.py get_summary, the loop over report.results: focus_nodes is a
\* dict in insertion order, here the list of its items [node, n]
RECURSIVE count_focus_nodes(_, _)
count_focus_nodes(focus_nodes, results) ==
    IF results = <<>> THEN focus_nodes
    ELSE LET node == Head(results).focus_node
             at == {i \in 1..Len(focus_nodes) : focus_nodes[i].node = node}
             next == IF at = {}
                     THEN Append(focus_nodes, [node |-> node, n |-> 1])
                     ELSE [i \in 1..Len(focus_nodes) |->
                              IF i \in at
                              THEN [focus_nodes[i] EXCEPT !.n = @ + 1]
                              ELSE focus_nodes[i]]
         IN count_focus_nodes(next, Tail(results))

\* max(focus_nodes.items(), key=...) keeping the last of the largest items
most_affected_node_last_maximum(focus_nodes) ==
    IF focus_nodes = <<>> THEN "None"
    ELSE LET largest == {i \in 1..Len(focus_nodes) :
                            \A j \in 1..Len(focus_nodes) :
                                focus_nodes[j].n <= focus_nodes[i].n}
         IN focus_nodes[CHOOSE i \in largest : \A j \in largest : j <= i].node

\* validator.py get_summary, most_affected_node: max() returns the first of
\* the largest items of focus_nodes, None for an empty dict
most_affected_node(focus_nodes) ==
    IF focus_nodes = <<>> THEN "None"
    ELSE LET largest == {i \in 1..Len(focus_nodes) :
                            \A j \in 1..Len(focus_nodes) :
                                focus_nodes[j].n <= focus_nodes[i].n}
         IN focus_nodes[SetMin(largest)].node

\* a summary that counts a focus node once for each of its results
get_summary_counting_results(rep) ==
    LET summary == ValidationReport_get_summary(rep)
        focus_nodes == count_focus_nodes(<<>>, rep.results)
    IN summary @@
       [violation_percentage |->
            percentage(summary.violation_count, summary.total_results),
        warning_percentage |->
            percentage(summary.warning_count, summary.total_results),
        affected_nodes |-> Len(rep.results),
        most_affected_node |-> most_affected_node(focus_nodes)]

\* validator.py SHACLValidator.get_summary
get_summary(rep) ==
    LET summary == ValidationReport_get_summary(rep)
        focus_nodes == count_focus_nodes(<<>>, rep.results)
    IN summary @@
       [violation_percentage |->
            percentage(summary.violation_count, summary.total_results),
        warning_percentage |->
            percentage(summary.warning_count, summary.total_results),
        affected_nodes |-> Len(focus_nodes),
        most_affected_node |-> most_affected_node(focus_nodes)]

\* The Turtle text of a report is a sequence of items: a word of the
\* serialiser's template is one item, a delimiter or line break is one item,
\* and a result's message is put in character by character.
Indent == "    "
Stamp == "20260101_000000"
IsoStamp == "2026-01-01T00:00:00"

\* str(n) for n >= 0, one digit to an item
RECURSIVE str_int(_)
str_int(n) ==
    LET digits == <<"0", "1", "2", "3", "4", "5", "6", "7", "8", "9">> IN
    IF n < 10 THEN <<digits[n + 1]>>
    ELSE str_int(n \div 10) \o <<digits[(n % 10) + 1]>>

\* a field is used when it is neither None nor the empty string
Truthy(field) == field \notin {"None", ""}

PrefixLine(prefix, iri) == <<"@prefix", " ", prefix, " ", "<", iri, ">", " ", ".">>

\* validator.py _generate_turtle_report, prefixes
prefixes ==
    PrefixLine("sh:", "http://www.w3.org/ns/shacl#") \o <<NL>>
    \o PrefixLine("rdf:", "http://www.w3.org/1999/02/22-rdf-syntax-ns#") \o <<NL>>
    \o PrefixLine("rdfs:", "http://www.w3.org/2000/01/rdf-schema#") \o <<NL>>
    \o PrefixLine("xsd:", "http://www.w3.org/2001/XMLSchema#") \o <<NL>>
    \o PrefixLine(":", "http://example.org/validation#") \o <<NL>>
    \o <<NL>>

result_uri(i) == <<":result_">> \o str_int(i)

\* validator.py _generate_turtle_report, the header lines of the report
HeaderLines(rep) ==
    LET summary == ValidationReport_get_summary(rep) IN
    <<<<":report_", Stamp, " ", "a", " ", "sh:ValidationReport", " ", ";">>,
      <<Indent, "sh:conforms", " ", IF rep.conforms THEN "true" ELSE "false", " ", ";">>,
      <<Indent, "rdfs:label", " ", DQ, "SHACL Validation Report", DQ, " ", ";">>,
      <<Indent, "rdfs:comment", " ", DQ, "Generated on ", IsoStamp, DQ, " ", ";">>,
      <<Indent, ":totalResults", " ">> \o str_int(summary.total_results) \o <<" ", ";">>,
      <<Indent, ":violationCount", " ">> \o str_int(summary.violation_count) \o <<" ", ";">>,
      <<Indent, ":warningCount", " ">> \o str_int(summary.warning_count) \o <<" ", ";">>,
      <<Indent, ":infoCount", " ">> \o str_int(summary.info_count) \o <<" ", ";">>>>

\* validator.py _generate_turtle_report, the first loop: the sh:result list
MemberLines(rep) ==
    [i \in 1..Len(rep.results) |->
        <<Indent, Indent>> \o result_uri(i)
        \o (IF i = Len(rep.results) THEN <<" ", ".">> ELSE <<" ", ",">>)]

Optional(present, line) == IF present THEN <<line>> ELSE <<>>

\* validator.py _generate_turtle_report, the second loop: one result
ResultLines(i, result) ==
    <<result_uri(i) \o <<" ", "a", " ", "sh:ValidationResult", " ", ";">>,
      <<Indent, "sh:focusNode", " ", "<", result.focus_node, ">", " ", ";">>>>
    \o Optional(Truthy(result.result_path),
                <<Indent, "sh:resultPath", " ", "<", result.result_path, ">", " ", ";">>)
    \o Optional(Truthy(result.value),
                <<Indent, "sh:value", " ", DQ, result.value, DQ, " ", ";">>)
    \o <<<<Indent, "sh:resultMessage", " ", DQ>> \o result.message \o <<DQ, "@en", " ", ";">>,
         <<Indent, "sh:resultSeverity", " ", "<", result.severity, ">", " ", ";">>>>
    \o Optional(Truthy(result.source_constraint),
                <<Indent, "sh:sourceConstraintComponent", " ", "<",
                  result.source_constraint, ">", " ", ";">>)
    \o Optional(Truthy(result.source_shape),
                <<Indent, "sh:sourceShape", " ", "<", result.source_shape, ">", " ", ";">>)
    \o <<<<Indent, ":timestamp", " ", DQ, IsoStamp, DQ, "^^", "xsd:dateTime", " ", ".">>,
         <<>>>>

RECURSIVE AllResultLines(_, _)
AllResultLines(results, i) ==
    IF i > Len(results) THEN <<>>
    ELSE ResultLines(i, results[i]) \o AllResultLines(results, i + 1)

\* validator.py _generate_turtle_report: the lines, joined by line breaks
_generate_turtle_report(rep) ==
    LET lines ==
            <<prefixes>> \o HeaderLines(rep)
            \o (IF rep.results # <<>>
                THEN <<<<Indent, "sh:result">>>> \o MemberLines(rep) \o <<<<>>>>
                     \o AllResultLines(rep.results, 1)
                ELSE <<<<Indent, ".">>>>)
    IN join(lines, <<NL>>)

\* validator.py export_report and _export_turtle: the parent directory is
\* made, the format is checked, and the text is written to output_path;
\* every failure is raised as a ValidationExecutionError.
export_report(fsys, rep, output_path, format) ==
    LET p == Path(output_path)
        parent == SubSeq(p, 1, Len(p) - 1)
    IN IF p = <<>> \/ (parent # <<>> /\ exists(fsys, parent) /\ fsys[parent].kind # "dir")
       THEN [raised |-> "ValidationExecutionError", fs |-> fsys]
       ELSE IF format # "turtle"
       THEN [raised |-> "ValidationExecutionError", fs |-> fsys]
       ELSE IF exists(fsys, p) /\ fsys[p].kind # "file"
       THEN [raised |-> "ValidationExecutionError", fs |-> fsys]
       ELSE [raised |-> "None",
             fs |-> (p :> File(_generate_turtle_report(rep))) @@ fsys]

(***************************************************************************)
(* Report and validator operations.                                        *)
(***************************************************************************)
AddResult(result) ==
    /\ Len(report.results) < MaxResults
    /\ report' = add_result(report, result)
    /\ UNCHANGED <<fs, triples, loaded_files, namespaces, ret, rdf_loader,
                   shapes_data, loaded_shape_files, validation_count, vret,
                   engine, qret, returned, held, last, loading>>

othersUnchangedByValidator ==
    /\ last' = "validator"
    /\ UNCHANGED <<fs, triples, loaded_files, namespaces, ret, report, engine, qret,
                   returned, held, loading>>

LoadShapes(file_path) ==
    LET r == load_shapes(TheValidator, fs, file_path) IN
    /\ Len(r.V.loaded_shape_files) <= MaxShapes
    /\ SetValidator(r.V)
    /\ vret' = [op |-> "load_shapes", file_path |-> file_path, raised |-> r.raised]
    /\ othersUnchangedByValidator

ClearShapes ==
    /\ SetValidator(clear_shapes(TheValidator))
    /\ vret' = [op |-> "clear_shapes"]
    /\ othersUnchangedByValidator

SetRdfLoader ==
    /\ SetValidator([TheValidator EXCEPT !.rdf_loader = TRUE])
    /\ vret' = [op |-> "set_rdf_loader"]
    /\ othersUnchangedByValidator

Validate(data_graph) ==
    LET r == validate(TheValidator, TheLoader, data_graph) IN
    /\ r.V.validation_count <= MaxValidations
    /\ SetValidator(r.V)
    /\ vret' = [op |-> "validate", data_graph |-> data_graph,
                raised |-> r.raised, report |-> r.report, refs |-> r.refs,
                count_before |-> validation_count]
    /\ othersUnchangedByValidator

ValidateNode(node_uri, shape_uri) ==
    LET r == validate_node(TheValidator, TheLoader, node_uri, shape_uri) IN
    /\ r.V.validation_count <= MaxValidations
    /\ SetValidator(r.V)
    /\ vret' = [op |-> "validate_node", node_uri |-> node_uri,
                shape_uri |-> shape_uri, raised |-> r.raised, report |-> r.report,
                refs |-> r.refs]
    /\ othersUnchangedByValidator

GetSummary ==
    /\ vret' = [op |-> "get_summary", of |-> report, summary |-> get_summary(report)]
    /\ UNCHANGED validatorVars
    /\ othersUnchangedByValidator

ExportReport(output_path, format) ==
    LET r == export_report(fs, report, output_path, format) IN
    /\ fs' = r.fs
    /\ vret' = IF r.raised = "None"
               THEN [op |-> "export_report", output_path |-> output_path,
                     format |-> format, raised |-> r.raised, of |-> report]
               ELSE [op |-> "export_report", output_path |-> output_path,
                     format |-> format, raised |-> r.raised]
    /\ UNCHANGED validatorVars
    /\ last' = "validator"
    /\ UNCHANGED <<triples, loaded_files, namespaces, ret, report, engine, qret,
                   returned, held, loading>>

\* The caller keeps the report the last validate or validate_node returned.
Keep ==
    /\ vret.op \in {"validate", "validate_node"}
    /\ vret.raised = "None"
    /\ held' = [kept |-> TRUE, report |-> vret.report, refs |-> vret.refs]
    /\ UNCHANGED <<fs, triples, loaded_files, namespaces, ret, report, vret, last,
                   loading>>
    /\ UNCHANGED validatorVars
    /\ UNCHANGED queryVars

(***************************************************************************)
(* SPARQLQueryEngine (src/src/ontology/query.py): more str methods, the    *)
(* query texts the model runs, and the engine's pure functions.            *)
(***************************************************************************)
\* what str.strip() removes when it is given no argument
Whitespace == {" ", "\t", "\n", "\r"}

LowerCase ==
    <<"a", "b", "c", "d", "e", "f", "g", "h", "i", "j", "k", "l", "m",
      "n", "o", "p", "q", "r", "s", "t", "u", "v", "w", "x", "y", "z">>

UpperCase ==
    <<"A", "B", "C", "D", "E", "F", "G", "H", "I", "J", "K", "L", "M",
      "N", "O", "P", "Q", "R", "S", "T", "U", "V", "W", "X", "Y", "Z">>

Upper(c) ==
    IF \E i \in 1..Len(LowerCase) : LowerCase[i] = c
    THEN UpperCase[CHOOSE i \in 1..Len(LowerCase) : LowerCase[i] = c]
    ELSE c

\* str.upper()
upper(s) == [i \in 1..Len(s) |-> Upper(s[i])]

\* str.replace(old, new) for a non-empty old: occurrences are replaced from
\* the left and do not overlap; the text put in is not searched again.
RECURSIVE replace(_, _, _)
replace(s, old, new) ==
    IF Len(s) < Len(old) THEN s
    ELSE IF startswith(s, old)
    THEN new \o replace(SubSeq(s, Len(old) + 1, Len(s)), old, new)
    ELSE <<Head(s)>> \o replace(Tail(s), old, new)

\* QueryType
SELECT == "SELECT"
CONSTRUCT == "CONSTRUCT"
ASK == "ASK"
DESCRIBE == "DESCRIBE"
UNKNOWN == "UNKNOWN"
QueryTypes == {SELECT, CONSTRUCT, ASK, DESCRIBE, UNKNOWN}

KwSelect == <<"S", "E", "L", "E", "C", "T">>
KwConstruct == <<"C", "O", "N", "S", "T", "R", "U", "C", "T">>
KwAsk == <<"A", "S", "K">>
KwDescribe == <<"D", "E", "S", "C", "R", "I", "B", "E">>
KwWhere == <<"W", "H", "E", "R", "E">>

\* The query texts.  a b is "a", a space, "b".
Sp(a, b) == a \o <<" ">> \o b
VarV == <<"?", "v">>
VarVx == <<"?", "v", "x">>
VarW == <<"?", "w">>
Braces == <<"{", "}">>
WhereBraces == Sp(KwWhere, Braces)

QSelect == Sp(Sp(KwSelect, VarV), WhereBraces)                \* SELECT ?v WHERE {}
QSelectVars == Sp(Sp(Sp(Sp(KwSelect, VarV), VarVx), VarW), WhereBraces)
QSelectNoWhere == Sp(KwSelect, VarV)                          \* SELECT ?v
QSelectOpen == Sp(Sp(Sp(KwSelect, VarV), KwWhere), <<"{">>)   \* SELECT ?v WHERE {
QSelectWhereInComment == Sp(QSelectNoWhere, <<"#">> \o KwWhere)
QConstruct == Sp(Sp(KwConstruct, Braces), WhereBraces)        \* CONSTRUCT {} WHERE {}
QAskLower == Sp(Sp(<<"a", "s", "k">>, <<"w", "h", "e", "r", "e">>), Braces)
QAskBrace == Sp(KwAsk, Braces)                                \* ASK {}
QAskBare == KwAsk                                             \* ASK
QAskClose == Sp(KwAsk, <<"}">>)                               \* ASK }
QDescribe == Sp(KwDescribe, <<"<", "x", ">">>)                \* DESCRIBE <x>
QEmpty == <<>>
QBlank == <<" ", NL>>
QCommentThenSelect == <<"#", "c", NL, " ">> \o QSelect
QCommentedOut == <<"#">> \o QAskBrace                         \* #ASK {}
QSelected == Sp(KwSelect \o <<"E", "D">>, WhereBraces)        \* SELECTED WHERE {}
QInvalid == Sp(<<"I", "N", "V", "A", "L", "I", "D">>, WhereBraces)

QueryTexts ==
    {QSelect, QSelectVars, QSelectNoWhere, QSelectOpen, QSelectWhereInComment,
     QConstruct, QAskLower, QAskBrace, QAskBare, QAskClose, QDescribe, QEmpty,
     QBlank, QCommentThenSelect, QCommentedOut, QSelected, QInvalid}

\* bindings: a dict, as the list of its items in insertion order
Binding(var, value) == [var |-> var, value |-> value]
NoBindings == <<>>
BindV == <<Binding(<<"v">>, <<"1">>)>>
BindChain == <<Binding(<<"v">>, VarW), Binding(<<"w">>, <<"2">>)>>
BindUnused == <<Binding(<<"u">>, <<"3">>)>>
BindingSets == {NoBindings, BindV, BindChain, BindUnused}

\* query.py execute_with_bindings, the substitution loop
RECURSIVE parameterize(_, _)
parameterize(query, bindings) ==
    IF bindings = <<>> THEN query
    ELSE LET placeholder == <<"?">> \o Head(bindings).var
         IN parameterize(replace(query, placeholder, Head(bindings).value),
                         Tail(bindings))

\* query.py execute_describe, the query it builds
ResourceUris == {<<"e", "x", ":", "A">>, <<"h", "t", "t", "p", ":", "/", "/", "e">>}
HttpScheme == <<"h", "t", "t", "p", ":", "/", "/">>
HttpsScheme == <<"h", "t", "t", "p", "s", ":", "/", "/">>

describe_query(resource_uri) ==
    IF startswith(resource_uri, HttpScheme) \/ startswith(resource_uri, HttpsScheme)
    THEN Sp(KwDescribe, <<"<">> \o resource_uri \o <<">">>)
    ELSE Sp(KwDescribe, resource_uri)

\* every text that reaches the engine
AllQueries ==
    QueryTexts
    \cup {parameterize(q, b) : q \in QueryTexts, b \in BindingSets}
    \cup {describe_query(u) : u \in ResourceUris}

\* query.py _detect_query_type, computed on the characters
ClassifyText(query) ==
    LET query_upper == upper(strip(query, Whitespace))
        split_lines == split_sep(query_upper, NL)
        lines == [i \in 1..Len(split_lines) |-> split_sep(split_lines[i], "#")[1]]
        query_clean == strip(join(lines, <<" ">>), Whitespace)
    IN IF startswith(query_clean, KwSelect) THEN SELECT
       ELSE IF startswith(query_clean, KwConstruct) THEN CONSTRUCT
       ELSE IF startswith(query_clean, KwAsk) THEN ASK
       ELSE IF startswith(query_clean, KwDescribe) THEN DESCRIBE
       ELSE UNKNOWN

Detected == [query \in AllQueries |-> ClassifyText(query)]

\* query.py _detect_query_type
_detect_query_type(query) == Detected[query]

\* a check that lets a query with unbalanced braces through
CheckSyntax_without_brace_count(query) ==
    IF strip(query, Whitespace) = <<>> THEN "QuerySyntaxError"
    ELSE LET query_type == _detect_query_type(query) IN
         IF query_type = UNKNOWN THEN "QuerySyntaxError"
         ELSE IF query_type \in {SELECT, CONSTRUCT} /\ ~contains(upper(query), KwWhere)
         THEN "QuerySyntaxError"
         ELSE IF query_type = ASK /\ ~contains(upper(query), KwWhere)
                                  /\ ~contains(query, <<"{">>)
         THEN "QuerySyntaxError"
         ELSE "None"

\* query.py _validate_query_syntax, computed on the characters: what it
\* raises ("None" when it returns).
CheckSyntax(query) ==
    IF strip(query, Whitespace) = <<>> THEN "QuerySyntaxError"
    ELSE LET query_type == _detect_query_type(query) IN
         IF query_type = UNKNOWN THEN "QuerySyntaxError"
         ELSE IF query_type \in {SELECT, CONSTRUCT} /\ ~contains(upper(query), KwWhere)
         THEN "QuerySyntaxError"
         ELSE IF query_type = ASK /\ ~contains(upper(query), KwWhere)
                                  /\ ~contains(query, <<"{">>)
         THEN "QuerySyntaxError"
         ELSE IF count(query, "{") # count(query, "}") THEN "QuerySyntaxError"
         ELSE "None"

SyntaxValidated == [query \in AllQueries |-> CheckSyntax(query)]

\* query.py _validate_query_syntax
_validate_query_syntax(query) == SyntaxValidated[query]

\* query.py validate_query: the 'valid' and 'query_type' entries it returns
validate_query(query) ==
    IF _validate_query_syntax(query) = "None"
    THEN [valid |-> TRUE, query_type |-> _detect_query_type(query)]
    ELSE [valid |-> FALSE, query_type |-> "None"]

\* An Optional number: Unset is None, Given(n) is the number n.
Unset == <<>>
Given(n) == <<n>>

\* The engine object: its fields (rdf_loader: is a loader attached).  Times
\* are whole seconds.
SPARQLQueryEngine(attached, default_timeout) ==
    [rdf_loader |-> attached, default_timeout |-> default_timeout,
     query_count |-> 0, total_query_time |-> 0]

\* a tiering whose first tier also takes 10000 triples
_calculate_timeout_inclusive(E, triple_count) ==
    IF triple_count = Unset THEN E.default_timeout
    ELSE IF triple_count[1] <= 10000 THEN 5
    ELSE IF triple_count[1] < 100000 THEN 15
    ELSE E.default_timeout

\* query.py _calculate_timeout
_calculate_timeout(E, triple_count) ==
    IF triple_count = Unset THEN E.default_timeout
    ELSE IF triple_count[1] < 10000 THEN 5
    ELSE IF triple_count[1] < 100000 THEN 15
    ELSE E.default_timeout

Returns(evaluator, value) == [raised |-> "None", result |-> value, evaluator |-> evaluator]
Raises(evaluator, error) == [raised |-> error, result |-> "None", evaluator |-> evaluator]

\* query.py _execute_select_internal: the timeout is not read.  The error
\* raised for 'turtle' is caught by the method's own handler and raised
\* again as QueryExecutionError.
_execute_select_internal(query, timeout, output_format) ==
    IF output_format = "json" THEN Returns("select", "json.dumps(results)")
    ELSE IF output_format = "sparql_json" THEN Returns("select", "results")
    ELSE IF output_format = "turtle" THEN Raises("select", "QueryExecutionError")
    ELSE Returns("select", "results['results']['bindings']")

\* query.py _execute_construct_internal
_execute_construct_internal(query, timeout, output_format) ==
    IF output_format = "json" THEN Returns("construct", "json.dumps({'triples': []})")
    ELSE IF output_format = "turtle" THEN Returns("construct", "# Constructed triples")
    ELSE Returns("construct", "[]")

\* query.py _execute_ask_internal: it is handed no output format.
_execute_ask_internal(query, timeout) == Returns("ask", "False")

\* query.py _execute_describe_internal
_execute_describe_internal(query, timeout, output_format) ==
    IF output_format = "json" THEN Returns("describe", "json.dumps({'triples': []})")
    ELSE IF output_format = "turtle" THEN Returns("describe", "# Description triples")
    ELSE Returns("describe", "[]")

\* a dispatch that hands an unclassified query to the DESCRIBE evaluator
dispatch_describing_unknown(query_type, query, timeout, output_format) ==
    IF query_type = SELECT THEN _execute_select_internal(query, timeout, output_format)
    ELSE IF query_type = CONSTRUCT
    THEN _execute_construct_internal(query, timeout, output_format)
    ELSE IF query_type = ASK THEN _execute_ask_internal(query, timeout)
    ELSE _execute_describe_internal(query, timeout, output_format)

\* query.py execute, the dispatch on the query type
dispatch(query_type, query, timeout, output_format) ==
    IF query_type = SELECT THEN _execute_select_internal(query, timeout, output_format)
    ELSE IF query_type = CONSTRUCT
    THEN _execute_construct_internal(query, timeout, output_format)
    ELSE IF query_type = ASK THEN _execute_ask_internal(query, timeout)
    ELSE IF query_type = DESCRIBE
    THEN _execute_describe_internal(query, timeout, output_format)
    ELSE Raises("None", "QuerySyntaxError")

\* query.py execute, "Track statistics"; execution_time is the time the
\* call took.
track_statistics(E, execution_time) ==
    [E EXCEPT !.query_count = @ + 1, !.total_query_time = @ + execution_time]

\* an execute that takes its statistics sample before it dispatches
execute_counting_first(E, L, query, timeout, output_format, syntax_check, execution_time) ==
    LET raised == IF syntax_check THEN _validate_query_syntax(query) ELSE "None"
        query_type == _detect_query_type(query)
        triple_count == IF E.rdf_loader THEN Given(get_triple_count(L)) ELSE Unset
        resolved == IF timeout = Unset THEN _calculate_timeout(E, triple_count)
                    ELSE timeout[1]
        r == dispatch(query_type, query, resolved, output_format)
    IN IF raised # "None"
       THEN [raised |-> raised, result |-> "None", evaluator |-> "None",
             timeout |-> Unset, triple_count |-> Unset, invoked |-> TRUE,
             query |-> query, E |-> E]
       ELSE [raised |-> r.raised, result |-> r.result, evaluator |-> r.evaluator,
             timeout |-> Given(resolved),
             triple_count |-> IF timeout = Unset THEN triple_count ELSE Unset,
             invoked |-> TRUE, query |-> query,
             E |-> track_statistics(E, execution_time)]

\* query.py execute.  syntax_check is its validate argument; execution_time
\* is the time the clock shows to have passed.  The outcome names the
\* evaluator that ran, the timeout it was handed, the triple count the
\* timeout was calculated from, and the engine afterwards.
execute(E, L, query, timeout, output_format, syntax_check, execution_time) ==
    LET raised == IF syntax_check THEN _validate_query_syntax(query) ELSE "None"
        query_type == _detect_query_type(query)
        triple_count == IF E.rdf_loader THEN Given(get_triple_count(L)) ELSE Unset
        resolved == IF timeout = Unset THEN _calculate_timeout(E, triple_count)
                    ELSE timeout[1]
        r == dispatch(query_type, query, resolved, output_format)
    IN IF raised # "None"
       THEN [raised |-> raised, result |-> "None", evaluator |-> "None",
             timeout |-> Unset, triple_count |-> Unset, invoked |-> TRUE,
             query |-> query, E |-> E]
       ELSE [raised |-> r.raised, result |-> r.result, evaluator |-> r.evaluator,
             timeout |-> Given(resolved),
             triple_count |-> IF timeout = Unset THEN triple_count ELSE Unset,
             invoked |-> TRUE, query |-> query,
             E |-> IF r.raised = "None" THEN track_statistics(E, execution_time) ELSE E]

\* an execute_select, execute_construct or execute_ask that turns the query
\* down before execute is invoked
NotInvoked(E, query) ==
    [raised |-> "QuerySyntaxError", result |-> "None", evaluator |-> "None",
     timeout |-> Unset, triple_count |-> Unset, invoked |-> FALSE,
     query |-> query, E |-> E]

\* query.py execute_select
execute_select(E, L, query, timeout, output_format, execution_time) ==
    IF _detect_query_type(query) # SELECT THEN NotInvoked(E, query)
    ELSE execute(E, L, query, timeout, output_format, TRUE, execution_time)

\* query.py execute_construct
execute_construct(E, L, query, timeout, output_format, execution_time) ==
    IF _detect_query_type(query) # CONSTRUCT THEN NotInvoked(E, query)
    ELSE execute(E, L, query, timeout, output_format, TRUE, execution_time)

\* query.py execute_ask
execute_ask(E, L, query, timeout, execution_time) ==
    IF _detect_query_type(query) # ASK THEN NotInvoked(E, query)
    ELSE execute(E, L, query, timeout, "python", TRUE, execution_time)

\* query.py execute_describe
execute_describe(E, L, resource_uri, timeout, output_format, execution_time) ==
    execute(E, L, describe_query(resource_uri), timeout, output_format, TRUE, execution_time)

\* query.py execute_with_bindings
execute_with_bindings(E, L, query, bindings, timeout, output_format, execution_time) ==
    execute(E, L, parameterize(query, bindings), timeout, output_format, TRUE, execution_time)

\* query.py reset_statistics
reset_statistics(E) == [E EXCEPT !.query_count = 0, !.total_query_time = 0]

\* validate_node once the full validation has returned the report held
\* in the variable report
NodeReport(node_uri, shape_uri) ==
    /\ vret' = [op |-> "node_report", node_uri |-> node_uri, shape_uri |-> shape_uri,
                full_report |-> report,
                report |-> node_report_of(report, node_uri, shape_uri)]
    /\ last' = "validator"
    /\ UNCHANGED <<fs, triples, loaded_files, namespaces, ret, report, held, loading>>
    /\ UNCHANGED validatorVars
    /\ UNCHANGED queryVars

(***************************************************************************)
(* Query engine operations.                                                *)
(***************************************************************************)
\* an engine whose calls empty the loader they read
othersUnchangedByEngine_clearing_store ==
    /\ last' = "engine"
    /\ SetLoader(clear(TheLoader))
    /\ UNCHANGED <<fs, ret, report, rdf_loader, shapes_data, loaded_shape_files,
                   validation_count, vret, held, loading>>

othersUnchangedByEngine ==
    /\ last' = "engine"
    /\ UNCHANGED <<fs, triples, loaded_files, namespaces, ret, report, rdf_loader,
                   shapes_data, loaded_shape_files, validation_count, vret, held,
                   loading>>

\* the statistics as a call finds them
Before ==
    [query_count |-> engine.query_count, total_query_time |-> engine.total_query_time]

\* A call of the execute family: the engine takes the state r.E, and the
\* call is recorded with its arguments and its outcome.
Executes(call, r) ==
    /\ r.E.query_count <= MaxQueries
    /\ engine' = r.E
    /\ returned' = IF r.invoked /\ r.raised = "None" THEN returned + 1 ELSE returned
    /\ qret' = call @@ [raised |-> r.raised, result |-> r.result,
                        evaluator |-> r.evaluator, resolved |-> r.timeout,
                        triple_count |-> r.triple_count,
                        invoked |-> r.invoked, executed |-> r.query,
                        before |-> Before]
    /\ othersUnchangedByEngine

\* A call that only computes a value.
Computes(call) ==
    /\ qret' = call
    /\ UNCHANGED <<engine, returned>>
    /\ othersUnchangedByEngine

Execute(query, timeout, output_format, syntax_check, execution_time) ==
    Executes([op |-> "execute", query |-> query, timeout |-> timeout,
              output_format |-> output_format, syntax_check |-> syntax_check,
              execution_time |-> execution_time],
             execute(engine, TheLoader, query, timeout, output_format, syntax_check,
                     execution_time))

ExecuteSelect(query, timeout, output_format, execution_time) ==
    Executes([op |-> "execute_select", query |-> query, timeout |-> timeout,
              output_format |-> output_format, execution_time |-> execution_time],
             execute_select(engine, TheLoader, query, timeout, output_format,
                            execution_time))

ExecuteConstruct(query, timeout, output_format, execution_time) ==
    Executes([op |-> "execute_construct", query |-> query, timeout |-> timeout,
              output_format |-> output_format, execution_time |-> execution_time],
             execute_construct(engine, TheLoader, query, timeout, output_format,
                               execution_time))

ExecuteAsk(query, timeout, execution_time) ==
    Executes([op |-> "execute_ask", query |-> query, timeout |-> timeout,
              execution_time |-> execution_time],
             execute_ask(engine, TheLoader, query, timeout, execution_time))

ExecuteDescribe(resource_uri, timeout, output_format, execution_time) ==
    Executes([op |-> "execute_describe", resource_uri |-> resource_uri,
              timeout |-> timeout, output_format |-> output_format,
              execution_time |-> execution_time],
             execute_describe(engine, TheLoader, resource_uri, timeout, output_format,
                              execution_time))

ExecuteWithBindings(query, bindings, timeout, output_format, execution_time) ==
    Executes([op |-> "execute_with_bindings", query |-> query, bindings |-> bindings,
              timeout |-> timeout, output_format |-> output_format,
              execution_time |-> execution_time],
             execute_with_bindings(engine, TheLoader, query, bindings, timeout,
                                   output_format, execution_time))

ResetStatistics ==
    /\ engine' = reset_statistics(engine)
    /\ returned' = 0
    /\ qret' = [op |-> "reset_statistics"]
    /\ othersUnchangedByEngine

DetectQueryType(query) ==
    Computes([op |-> "_detect_query_type", query |-> query,
              value |-> _detect_query_type(query)])

ValidateQuerySyntax(query) ==
    Computes([op |-> "_validate_query_syntax", query |-> query,
              raised |-> _validate_query_syntax(query)])

ValidateQuery(query) ==
    Computes([op |-> "validate_query", query |-> query,
              value |-> validate_query(query)])

CalculateTimeout(triple_count) ==
    Computes([op |-> "_calculate_timeout", triple_count |-> triple_count,
              value |-> _calculate_timeout(engine, triple_count)])

(***************************************************************************)
(* Specifications.                                                         *)
(***************************************************************************)
\* The state after RDFLoader(), SHACLValidator(...) and ValidationReport(...)
\* were constructed, over a given file system.
\* no report is kept yet
NothingHeld == [kept |-> FALSE, report |-> ValidationReport(TRUE), refs |-> OwnLists]

StoreConstructed(fsys, attached, conforms) ==
    /\ fs = fsys
    /\ triples = NewLoader.triples
    /\ loaded_files = NewLoader.loaded_files
    /\ namespaces = NewLoader.namespaces
    /\ ret = NoCall
    /\ report = ValidationReport(conforms)
    /\ rdf_loader = attached
    /\ shapes_data = <<>>
    /\ loaded_shape_files = <<>>
    /\ validation_count = 0
    /\ vret = NoCall
    /\ held = NothingHeld
    /\ last = "none"
    /\ loading = Idle

\* The state after SPARQLQueryEngine(...) was constructed.
EngineConstructed(E) ==
    /\ engine = E
    /\ qret = NoCall
    /\ returned = 0

\* query.py __init__, the default of default_timeout, in seconds
DefaultTimeout == 30

\* The components as api.py constructs them: the engine and the validator
\* share the loader.
Constructed(fsys, attached, conforms) ==
    /\ StoreConstructed(fsys, attached, conforms)
    /\ EngineConstructed(SPARQLQueryEngine(TRUE, DefaultTimeout))

Queries ==
    {Ex \o <<":", "P">>,            \* ex:P
     <<"z", ":", "P">>,             \* z:P
     <<":", "P">>,                  \* :P
     <<"P">>,                       \* P
     IriE \o <<"P">>,               \* http://e/P
     <<"_", ":", "b">>}             \* _:b

\* Spec: load_file, resolve_uri and clear over every source text.
Init ==
    \E a \in {File(c) : c \in Sources} \cup {Missing},
       b \in {File("F"), Missing} :
        Constructed(MkFs(a, b), TRUE, TRUE)

Next ==
    \/ \E file_path \in RawPaths, syntax_check \in BOOLEAN : LoadFile(file_path, syntax_check)
    \/ \E prefixed_uri \in Queries : ResolveUri(prefixed_uri)
    \/ Clear

Spec == Init /\ [][Next]_vars

\* SpecBatch: load_files over well-formed, malformed, unreadable and
\* missing files.
BatchPaths == {PathDotA, PathB, PathU}

Batches == UNION {[1..n -> BatchPaths] : n \in 0..MaxBatch}

InitBatch ==
    \E a \in {File("Core"), File("NoDot")},
       b \in {File("F"), Missing} :
        Constructed(MkFs(a, b), TRUE, TRUE)

NextBatch ==
    \/ \E file_paths \in Batches, syntax_check \in BOOLEAN, continue_on_error \in BOOLEAN :
           LoadFiles(file_paths, syntax_check, continue_on_error)
    \/ Clear

SpecBatch == InitBatch /\ [][NextBatch]_vars

\* SpecDirectory: load_directory over the same files, in every order the
\* file system may enumerate them.
NextDirectory ==
    \/ \E directory_path \in {PathD, PathA, <<"x">>}, pattern \in {"*.ttl", "*.txt"},
          recursive \in BOOLEAN, syntax_check \in BOOLEAN, continue_on_error \in BOOLEAN :
           LoadDirectory(directory_path, pattern, recursive, syntax_check, continue_on_error)
    \/ \E file_path \in {PathA, PathB} : LoadFile(file_path, TRUE)
    \/ Clear

SpecDirectory == InitBatch /\ [][NextDirectory]_vars

\* SpecReport: a report built by hand with add_result.
InitReport ==
    \E conforms \in BOOLEAN :
        Constructed(MkFs(File("Core"), File("F")), TRUE, conforms)

NextReport == \E result \in Results : AddResult(result)

SpecReport == InitReport /\ [][NextReport]_vars

\* SpecValidator: the validator beside a loader.
InitValidator ==
    \E attached \in BOOLEAN :
        Constructed(MkFs(File("Core"), File("F")), attached, TRUE)

NextValidator ==
    \/ \E file_path \in {PathA, PathB, PathU, <<"x">>} : LoadShapes(file_path)
    \/ ClearShapes
    \/ SetRdfLoader
    \/ \E data_graph \in {"None", "graph"} : Validate(data_graph)
    \/ \E node_uri \in FocusNodes, shape_uri \in ShapeUris \cup {"None"} :
           ValidateNode(node_uri, shape_uri)
    \/ \E file_path \in {PathA, PathB} : LoadFile(file_path, TRUE)
    \/ Clear

SpecValidator == InitValidator /\ [][NextValidator]_vars

\* SpecNode: validate_node's filter over full reports built by hand.
NodeResults ==
    {ValidationResult(n, sev, sh) :
        n \in FocusNodes, sev \in {VIOLATION, WARNING}, sh \in ShapeUris}

NextNode ==
    \/ \E result \in NodeResults : AddResult(result)
    \/ \E node_uri \in FocusNodes, shape_uri \in ShapeUris \cup {"None"} :
           NodeReport(node_uri, shape_uri)

SpecNode == InitValidator /\ [][NextNode]_vars

\* SpecSummary: reports built with add_result, and their summaries.
SummaryResults == {ValidationResult(n, sev, "ex:S1") : n \in FocusNodes, sev \in Severities}

NextSummary ==
    \/ \E result \in SummaryResults : AddResult(result)
    \/ GetSummary

SpecSummary == InitReport /\ [][NextSummary]_vars

\* SpecExport: reports built with add_result and exported as Turtle.  The
\* messages are character sequences, one plain and one that quotes a word.
PlainMessage == <<"m">>
QuotingMessage == <<"n", "o", " ", DQ, "x", DQ>>
PathR == <<"d", "report.ttl">>

ExportResults ==
    {[ValidationResult("ex:n1", VIOLATION, "ex:S1") EXCEPT !.message = PlainMessage],
     [ValidationResult("ex:n2", WARNING, "None") EXCEPT !.message = PlainMessage],
     [ValidationResult("ex:n1", INFO, "ex:S1") EXCEPT !.message = QuotingMessage]}

NextExport ==
    \/ \E result \in ExportResults : AddResult(result)
    \/ \E output_path \in {PathR, PathD}, format \in {"turtle", "json"} :
           ExportReport(output_path, format)

SpecExport == InitReport /\ [][NextExport]_vars

\* SpecFrozen: a caller keeps a report while the loader and the validator
\* go on working.
NextFrozen ==
    \/ LoadShapes(PathA)
    \/ ClearShapes
    \/ Validate("None")
    \/ ValidateNode("ex:n1", "None")
    \/ Keep
    \/ LoadFile(PathA, TRUE)
    \/ LoadFiles(<<PathB, PathU>>, TRUE, TRUE)
    \/ Clear

SpecFrozen == InitValidator /\ [][NextFrozen]_vars

\* SpecClassify: the engine's pure functions, over every query text and
\* every triple count, under three configured default timeouts.
DefaultTimeouts == {10, DefaultTimeout, 2 * DefaultTimeout}
TripleCounts ==
    {Unset} \cup {Given(n) : n \in {0, 5000, 9999, 10000, 10001, 50000, 99999,
                                    100000, 100001, 150000}}

InitClassify ==
    \E default_timeout \in DefaultTimeouts :
        /\ StoreConstructed(MkFs(File("Core"), File("F")), TRUE, TRUE)
        /\ EngineConstructed(SPARQLQueryEngine(TRUE, default_timeout))

NextClassify ==
    \/ \E query \in AllQueries : DetectQueryType(query)
    \/ \E query \in AllQueries : ValidateQuerySyntax(query)
    \/ \E query \in AllQueries : ValidateQuery(query)
    \/ \E triple_count \in TripleCounts : CalculateTimeout(triple_count)

SpecClassify == InitClassify /\ [][NextClassify]_vars

\* SpecQuery: the execute family and the statistics, with and without a
\* loader.  Given(1) is a timeout shorter than the longest call.
ExecQueries ==
    {QSelect, QSelectNoWhere, QConstruct, QAskBrace, QAskBare, QDescribe,
     QEmpty, QSelected, QInvalid}
BindQueries == {QSelect, QSelectVars, QAskBrace}
Timeouts == {Unset, Given(1)}
OutputFormats == {"python", "json", "sparql_json", "turtle"}
ExecutionTimes == {0, MaxElapsed}

InitQuery ==
    \E attached \in BOOLEAN :
        /\ StoreConstructed(MkFs(File("Core"), File("F")), TRUE, TRUE)
        /\ EngineConstructed(SPARQLQueryEngine(attached, DefaultTimeout))

NextQuery ==
    \/ \E query \in ExecQueries, timeout \in Timeouts, output_format \in OutputFormats,
          syntax_check \in BOOLEAN, execution_time \in ExecutionTimes :
           Execute(query, timeout, output_format, syntax_check, execution_time)
    \/ \E query \in ExecQueries, output_format \in {"python", "turtle"} :
           ExecuteSelect(query, Unset, output_format, 0)
    \/ \E query \in ExecQueries, output_format \in {"python", "turtle"} :
           ExecuteConstruct(query, Unset, output_format, 0)
    \/ \E query \in ExecQueries : ExecuteAsk(query, Unset, 0)
    \/ \E resource_uri \in ResourceUris, output_format \in {"python", "turtle"} :
           ExecuteDescribe(resource_uri, Unset, output_format, 0)
    \/ \E query \in BindQueries, bindings \in BindingSets :
           ExecuteWithBindings(query, bindings, Unset, "python", 0)
    \/ ResetStatistics

SpecQuery == InitQuery /\ [][NextQuery]_vars

\* SpecOwnership: the loader, the validator and the engine side by side,
\* as api.py holds them.
InitOwnership ==
    \E a \in {File("Core"), File("Empty")}, attached \in BOOLEAN :
        /\ StoreConstructed(MkFs(a, File("F")), TRUE, TRUE)
        /\ EngineConstructed(SPARQLQueryEngine(attached, DefaultTimeout))

NextOwnership ==
    \/ LoadFile(PathA, TRUE)
    \/ Clear
    \/ LoadShapes(PathA)
    \/ ClearShapes
    \/ Validate("None")
    \/ \E timeout \in Timeouts : Execute(QSelect, timeout, "python", TRUE, 0)
    \/ ResetStatistics

SpecOwnership == InitOwnership /\ [][NextOwnership]_vars

\* SpecConcurrent: two request handlers on the components api.py shares.
\* One handler's load_file and clear take effect statement by statement;
\* the other's get_triples, clear, load_shapes and validate run whole at
\* any point in between.
InitConcurrent ==
    \E a \in {File("Core"), File("NoDot")} :
        Constructed(MkFs(a, File("F")), TRUE, TRUE)

NextConcurrent ==
    \/ \E file_path \in {PathA, PathB} : BeginLoad(file_path, TRUE)
    \/ RegisterNamespaces
    \/ AppendRecord
    \/ AppendLoadedFile
    \/ ClearTriples
    \/ ClearLoadedFiles
    \/ ClearNamespaces
    \/ GetTriples
    \/ Clear
    \/ LoadShapes(PathA)
    \/ Validate("None")

SpecConcurrent == InitConcurrent /\ [][NextConcurrent]_vars

(***************************************************************************)
(* Properties.                                                             *)
(***************************************************************************)
HasViolation(rep) ==
    \E i \in 1..Len(rep.results) : rep.results[i].severity = VIOLATION

\* C1: in a ValidationReport built with add_result, conforms is false as
\* soon as a result of severity Violation was added, and no add_result (of
\* any severity, the same result added again included) turns conforms from
\* false back to true.
C1_ConformsNeverRestored ==
    /\ [](HasViolation(report) => ~report.conforms)
    /\ [][~report.conforms => ~report'.conforms]_vars

\* C1 witness: a Violation, the same result added again, then an Info.
C1_Witness ==
    /\ Len(report.results) = 3
    /\ report.results[1].severity = VIOLATION
    /\ report.results[2] = report.results[1]
    /\ report.results[3].severity = INFO
    /\ ~report.conforms

Returned(call) ==
    call.op \in {"validate", "validate_node"} /\ call.raised = "None"

\* C2: every report validate or validate_node returns has conforms = true
\* exactly when it holds no result of severity Violation, and is_valid of
\* it equals its conforms.
C2_ReturnedReportConforms ==
    Returned(vret) =>
        /\ vret.report.conforms <=> ~HasViolation(vret.report)
        /\ is_valid(vret.report) <=> vret.report.conforms

\* C2 witness: validate_node returned a report over loaded data.
C2_Witness ==
    /\ Returned(vret)
    /\ vret.op = "validate_node"
    /\ vret.report.data_sources # <<>>
    /\ vret.report.conforms

LoadedBy(call) == call.op = "load_file" /\ call.raised = "None"

\* C3: a second load_file of a source that is already in the Store leaves
\* the stored records, the source list and get_triple_count as they were.
C3_ReloadChangesNothing ==
    [][(/\ LoadedBy(ret')
        /\ \E i \in 1..Len(triples) :
               /\ triples[i].file = Path(ret'.file_path)
               /\ triples[i].content = fs[Path(ret'.file_path)].content)
       => /\ triples' = triples
          /\ loaded_files' = loaded_files
          /\ get_triple_count(Loader(triples', loaded_files', namespaces'))
               = get_triple_count(TheLoader)]_vars

\* The declarations "@prefix p: <I> ." of a text, read off the characters:
\* p is what stands between "@prefix" and the first colon, I what stands
\* between the first "<" and the first ">" after it.
FirstIndex(s, c) == SetMin({i \in 1..Len(s) : s[i] = c})

IsDeclaration(rawline) ==
    LET line == strip(rawline, WS) IN
    /\ startswith(line, AtPrefix)
    /\ \E i, j, k \in 1..Len(line) :
           /\ line[i] = ":" /\ line[j] = "<" /\ line[k] = ">"
           /\ i < j /\ j < k
           /\ \A m \in 1..(j - 1) : line[m] \notin {"<", ">"}

DeclaredPrefix(rawline) ==
    LET line == strip(rawline, WS)
        rest == lstrip(SubSeq(line, Len(AtPrefix) + 1, Len(line)), WS)
    IN SubSeq(rest, 1, FirstIndex(rest, ":") - 1)

DeclaredIri(rawline) ==
    LET line == strip(rawline, WS)
        after == SubSeq(line, FirstIndex(line, "<") + 1, Len(line))
    IN SubSeq(after, 1, FirstIndex(after, ">") - 1)

\* the declarations of a text that no later line of it redeclares
Declarations(text) ==
    LET lines == split_sep(text, NL) IN
    {[prefix |-> DeclaredPrefix(lines[n]), iri |-> DeclaredIri(lines[n])] :
        n \in {m \in 1..Len(lines) :
                 /\ IsDeclaration(lines[m])
                 /\ \A l \in (m + 1)..Len(lines) :
                        IsDeclaration(lines[l]) =>
                            DeclaredPrefix(lines[l]) # DeclaredPrefix(lines[m])}}

DeclaredIn == [content \in Sources |-> Declarations(Text(content))]

\* C4: after load_file(validate=true) succeeded on a source, each of its
\* declarations "@prefix p: <I> ." resolves: resolve_uri("p:P") returns I
\* followed by P.
C4_DeclaredPrefixResolves ==
    (LoadedBy(ret) /\ ret.validate) =>
        \A d \in DeclaredIn[fs[Path(ret.file_path)].content] :
            resolve_uri(namespaces, d.prefix \o <<":", "P">>)
                = [raised |-> "None", value |-> d.iri \o <<"P">>]

IsAbsolute(uri) == contains(uri, <<":", "/", "/">>)
IsBlankNode(uri) == startswith(uri, <<"_", ":">>)
HasColon(uri) == \E i \in 1..Len(uri) : uri[i] = ":"

\* C5: resolve_uri returns an absolute IRI, a blank node and a name without
\* a colon unchanged, raises NamespaceError for prefix:local with an
\* unregistered prefix, and changes nothing in the Store.
C5_ResolveUriContract ==
    [][ret'.op = "resolve_uri" =>
        LET uri == ret'.prefixed_uri IN
        /\ UNCHANGED loaderVars
        /\ IF IsAbsolute(uri) \/ IsBlankNode(uri) \/ ~HasColon(uri)
           THEN ret'.raised = "None" /\ ret'.value = uri
           ELSE split_once(uri, ":")[1] \notin DOMAIN namespaces
                    => ret'.raised = "NamespaceError"]_vars

\* What load_file raises on a source taken alone: it depends on the file
\* and on the validate flag, not on what the Store holds.
Outcome(file_path, syntax_check) ==
    load_file(NewLoader, fs, file_path, syntax_check).raised

Fails(file_path, syntax_check) == Outcome(file_path, syntax_check) # "None"

NormalForms(file_paths) == [i \in 1..Len(file_paths) |-> Path(file_paths[i])]

\* C6: load_files with continue_on_error=false raises the error of the
\* first source that fails, the sources before it stay loaded, and no
\* source after it is attempted (with no failure every source is loaded).
C6_FirstFailureAborts ==
    [][(ret'.op = "load_files" /\ ~ret'.continue_on_error) =>
        LET file_paths == ret'.file_paths
            failing == {i \in 1..Len(file_paths) : Fails(file_paths[i], ret'.validate)}
            done == IF failing = {} THEN Len(file_paths) ELSE SetMin(failing) - 1
        IN /\ loaded_files' = loaded_files \o NormalForms(SubSeq(file_paths, 1, done))
           /\ Len(triples') = Len(triples) + done
           /\ SubSeq(triples', 1, Len(triples)) = triples
           /\ IF failing = {}
              THEN ret'.raised = "None" /\ ret'.attempted = file_paths
              ELSE /\ ret'.raised = Outcome(file_paths[done + 1], ret'.validate)
                   /\ ret'.attempted = SubSeq(file_paths, 1, done + 1)]_vars

\* C6 witness: the second of two sources failed and the first one stayed.
C6_Witness ==
    /\ ret.op = "load_files" /\ ~ret.continue_on_error
    /\ ret.raised # "None"
    /\ Len(ret.attempted) = 2
    /\ loaded_files # <<>>
    /\ loaded_files[Len(loaded_files)] = Path(ret.file_paths[1])

Partitions(call) ==
    LET Failing(file_path) == Fails(file_path, call.validate)
        Passing(file_path) == ~Fails(file_path, call.validate)
    IN /\ call.raised = "None"
       /\ call.attempted = call.file_paths
       /\ call.successful = SelectSeq(call.file_paths, Passing)
       /\ call.failed = SelectSeq(call.file_paths, Failing)

\* C7 as claimed: with continue_on_error=true load_files raises nothing,
\* attempts every source in order, returns the partition of its input, and
\* loaded_files grows by exactly successful_files.
C7_GrowsBySuccessfulFiles ==
    [][(ret'.op = "load_files" /\ ret'.continue_on_error) =>
        /\ Partitions(ret')
        /\ loaded_files' = loaded_files \o ret'.successful]_vars

\* C7: with continue_on_error=true load_files raises nothing, attempts
\* every source in order, returns the partition of its input, and
\* loaded_files grows by str(Path(p)) for each p of successful_files, in
\* that order.
C7_GrowsByNormalisedSuccessfulFiles ==
    [][(ret'.op = "load_files" /\ ret'.continue_on_error) =>
        /\ Partitions(ret')
        /\ loaded_files' = loaded_files \o NormalForms(ret'.successful)]_vars

\* C7 witness: "./d/a.ttl" loaded and another source failed.
C7_Witness ==
    /\ ret.op = "load_files" /\ ret.continue_on_error
    /\ ret.successful = <<PathDotA>>
    /\ Len(ret.failed) = 1
    /\ loaded_files[Len(loaded_files)] = PathA

\* The number of """ delimiters of a line, read left to right.
RECURSIVE LongQuotes(_)
LongQuotes(line) ==
    IF Len(line) < 3 THEN 0
    ELSE IF SubSeq(line, 1, 3) = TripleQuote
         THEN 1 + LongQuotes(SubSeq(line, 4, Len(line)))
         ELSE LongQuotes(Tail(line))

\* A line opens a "..." literal it does not close.
UnterminatedString(rawline) ==
    LET line == strip(rawline, WS) IN
    /\ ~startswith(line, <<"#">>)
    /\ (count(line, DQ) - 3 * LongQuotes(line)) % 2 = 1

\* An @prefix line without "<", without ">" or without its final period.
MalformedPrefix(rawline) ==
    LET line == strip(rawline, WS) IN
    /\ startswith(line, AtPrefix)
    /\ \/ count(line, "<") = 0
       \/ count(line, ">") = 0
       \/ ~endswith(line, <<".">>)

Malformed(text) ==
    LET lines == split_sep(text, NL) IN
    \E n \in 1..Len(lines) : MalformedPrefix(lines[n]) \/ UnterminatedString(lines[n])

IsMalformed == [content \in Sources |-> Malformed(Text(content))]

\* C8: load_file(validate=true) raises TurtleSyntaxError on every source
\* with an @prefix line that lacks "<", ">" or the period, or with an
\* unterminated string literal outside a triple-quoted block, and then
\* leaves triples, loaded_files and namespaces as they were.
C8_MalformedSourceRejected ==
    [][(/\ ret'.op = "load_file" /\ ret'.validate
        /\ fs[Path(ret'.file_path)].kind = "file"
        /\ IsMalformed[fs[Path(ret'.file_path)].content])
       => ret'.raised = "TurtleSyntaxError" /\ UNCHANGED loaderVars]_vars

\* C9: after clear() the triples, the loaded files and the namespaces are
\* empty: get_triple_count() is 0, every prefixed resolve_uri raises
\* NamespaceError, and the loader equals a freshly constructed one.
C9_ClearResets ==
    ret.op = "clear" =>
        /\ triples = <<>> /\ loaded_files = <<>> /\ namespaces = EmptyDict
        /\ get_triple_count(TheLoader) = 0
        /\ \A uri \in {q \in Queries : HasColon(q)} :
               resolve_uri(namespaces, uri).raised = "NamespaceError"
        /\ TheLoader = NewLoader

\* C9 witness: clear() was the last call.
C9_Witness == ret.op = "clear" /\ get_triple_count(TheLoader) = 0

\* The lexicographic order of the path strings the model uses.
NameRank(name) ==
    CASE name = "a.ttl" -> 1
      [] name = "b.ttl" -> 2
      [] name = "d" -> 3
      [] name = "n.txt" -> 4
      [] name = "u.ttl" -> 5
      [] OTHER -> 6

RECURSIVE PathBefore(_, _)
PathBefore(p, q) ==
    IF p = <<>> THEN q # <<>>
    ELSE IF q = <<>> THEN FALSE
    ELSE IF Head(p) = Head(q) THEN PathBefore(Tail(p), Tail(q))
    ELSE NameRank(Head(p)) < NameRank(Head(q))

\* C10: load_directory attempts the matching files in lexicographic path
\* order, whatever the order in which the file system enumerates them.
C10_AttemptsInLexicographicOrder ==
    ret.op = "load_directory" =>
        \A i, j \in 1..Len(ret.attempted) :
            i < j => PathBefore(ret.attempted[i], ret.attempted[j])

\* C11: _calculate_timeout returns 5 seconds for fewer than 10000 triples,
\* 15 seconds from 10000 up to 99999 triples, and the engine's configured
\* default from 100000 triples on and when no triple count is given; at
\* 9999, 10000, 99999 and 100000 it returns 5, 15, 15 and the default.
C11_TimeoutTiers ==
    qret.op = "_calculate_timeout" =>
        LET n == qret.triple_count
            known == n # Unset
        IN /\ ~known => qret.value = engine.default_timeout
           /\ known /\ n[1] < 10000 => qret.value = 5
           /\ known /\ 10000 <= n[1] /\ n[1] < 100000 => qret.value = 15
           /\ known /\ 100000 <= n[1] => qret.value = engine.default_timeout
           /\ n = Given(9999) => qret.value = 5
           /\ n = Given(10000) => qret.value = 15
           /\ n = Given(99999) => qret.value = 15
           /\ n = Given(100000) => qret.value = engine.default_timeout

\* the tier boundary 10000 was asked for, under a default other than 15
C11_Witness ==
    /\ qret.op = "_calculate_timeout"
    /\ qret.triple_count = Given(10000)
    /\ qret.value = 15
    /\ engine.default_timeout = 2 * DefaultTimeout

\* The characters of a keyword or a name.
WordChars ==
    {LowerCase[i] : i \in 1..Len(LowerCase)} \cup {UpperCase[i] : i \in 1..Len(UpperCase)}
    \cup {"0", "1", "2", "3", "4", "5", "6", "7", "8", "9", "_"}

\* The text without its comments: a "#" and what follows it on its line.
RECURSIVE WithoutComments(_, _)
WithoutComments(s, in_comment) ==
    IF s = <<>> THEN <<>>
    ELSE IF Head(s) = NL THEN <<NL>> \o WithoutComments(Tail(s), FALSE)
    ELSE IF in_comment \/ Head(s) = "#" THEN WithoutComments(Tail(s), TRUE)
    ELSE <<Head(s)>> \o WithoutComments(Tail(s), FALSE)

\* The longest prefix of s made of word characters.
RECURSIVE Word(_)
Word(s) ==
    IF s # <<>> /\ Head(s) \in WordChars THEN <<Head(s)>> \o Word(Tail(s)) ELSE <<>>

\* The first token of a query text, in upper case.
FirstToken(query) == upper(Word(lstrip(WithoutComments(query, FALSE), Whitespace)))

\* C12: _detect_query_type returns SELECT, CONSTRUCT, ASK or DESCRIBE only
\* when the first token of the text (comments and leading whitespace
\* removed, case ignored) is that keyword; every other text, one whose
\* first token only begins with a keyword included, is UNKNOWN.
C12_FirstTokenDecides ==
    qret.op = "_detect_query_type" =>
        LET token == FirstToken(qret.query) IN
        qret.value = IF token = KwSelect THEN SELECT
                     ELSE IF token = KwConstruct THEN CONSTRUCT
                     ELSE IF token = KwAsk THEN ASK
                     ELSE IF token = KwDescribe THEN DESCRIBE
                     ELSE UNKNOWN

\* The queries the syntax check is to turn down.
Rejected(query) ==
    LET query_type == _detect_query_type(query)
        has_where == contains(upper(query), KwWhere)
    IN \/ \A i \in 1..Len(query) : query[i] \in Whitespace
       \/ query_type = UNKNOWN
       \/ query_type \in {SELECT, CONSTRUCT} /\ ~has_where
       \/ query_type = ASK /\ ~has_where /\ count(query, "{") = 0
       \/ count(query, "{") # count(query, "}")

\* C13: _validate_query_syntax raises QuerySyntaxError exactly for a query
\* that is empty or blank, or UNKNOWN, or a SELECT or CONSTRUCT without
\* WHERE in any case, or an ASK with neither WHERE nor "{", or one with
\* different numbers of "{" and "}"; validate_query reports valid = false
\* with query_type None in exactly those cases.
C13_SyntaxCheckRejectsExactly ==
    /\ qret.op = "_validate_query_syntax" =>
           qret.raised = IF Rejected(qret.query) THEN "QuerySyntaxError" ELSE "None"
    /\ qret.op = "validate_query" =>
           /\ qret.value.valid = ~Rejected(qret.query)
           /\ (qret.value.query_type = "None") = Rejected(qret.query)

\* validate_query turned down a SELECT with WHERE whose brace is not closed
C13_Witness ==
    /\ qret.op = "validate_query"
    /\ qret.query = QSelectOpen
    /\ ~qret.value.valid

ExecuteOps ==
    {"execute", "execute_select", "execute_construct", "execute_ask",
     "execute_describe", "execute_with_bindings"}

\* C14: an execute invocation on a query classified UNKNOWN raises
\* QuerySyntaxError and runs none of the four evaluators, with validate
\* true and with validate false.
C14_UnknownIsRejected ==
    qret.op \in ExecuteOps /\ qret.invoked
    /\ _detect_query_type(qret.executed) = UNKNOWN =>
        /\ qret.raised = "QuerySyntaxError"
        /\ qret.evaluator = "None"

\* execute was called with validate = False on a query of unknown type
C14_Witness ==
    /\ qret.op = "execute"
    /\ ~qret.syntax_check
    /\ qret.query = QInvalid
    /\ qret.raised = "QuerySyntaxError"

\* C15: query_count is the number of execute invocations that returned a
\* result since the last reset_statistics, and an invocation that raises
\* leaves query_count and total_query_time as they were.
C15_CountsReturnedInvocations ==
    /\ engine.query_count = returned
    /\ qret.op \in ExecuteOps /\ qret.raised # "None" =>
           /\ engine.query_count = qret.before.query_count
           /\ engine.total_query_time = qret.before.total_query_time

\* an invocation raised after another had returned
C15_Witness ==
    /\ qret.op \in ExecuteOps
    /\ qret.invoked
    /\ qret.raised # "None"
    /\ returned >= 1
    /\ engine.total_query_time >= 1

\* C16: execute on a SELECT or ASK query with output_format 'turtle' never
\* returns a result: it raises (the format error, when the query passes
\* the syntax check) and leaves the statistics as they were.
C16_TurtleRefusedForSelectAndAsk ==
    qret.op = "execute" /\ qret.output_format = "turtle"
    /\ _detect_query_type(qret.query) \in {SELECT, ASK} =>
        /\ qret.raised # "None"
        /\ _validate_query_syntax(qret.query) = "None" =>
               qret.raised = "QueryExecutionError"
        /\ engine.query_count = qret.before.query_count
        /\ engine.total_query_time = qret.before.total_query_time

\* C17: when an evaluator runs for longer than the timeout execute
\* resolved, execute raises QueryTimeoutError and returns no result.
C17_TimeoutRaises ==
    qret.op = "execute" /\ qret.evaluator # "None"
    /\ qret.raised # "QueryExecutionError"
    /\ qret.execution_time > qret.resolved[1] =>
        qret.raised = "QueryTimeoutError"

\* The places of a variable name in the bindings.
BoundAt(bindings, name) == {i \in 1..Len(bindings) : bindings[i].var = name}

\* The query with each variable token ?name replaced by the value bound to
\* name, in one pass: a token ends where its word characters end, and a
\* value put in is not read again.
RECURSIVE SubstituteTokens(_, _)
SubstituteTokens(s, bindings) ==
    IF s = <<>> THEN <<>>
    ELSE IF Head(s) # "?" THEN <<Head(s)>> \o SubstituteTokens(Tail(s), bindings)
    ELSE LET name == Word(Tail(s))
             after == SubSeq(s, Len(name) + 2, Len(s))
             at == BoundAt(bindings, name)
         IN (IF at = {} THEN <<"?">> \o name ELSE bindings[SetMin(at)].value)
            \o SubstituteTokens(after, bindings)

\* C18: execute_with_bindings hands execute the query in which every
\* token ?v of a bound variable v is replaced by bindings[v] and every
\* other variable token is left as it is (?vx is not touched by a binding
\* for v, and a substituted value is not substituted again).
C18_TokensSubstituted ==
    qret.op = "execute_with_bindings" =>
        /\ qret.invoked
        /\ qret.executed = SubstituteTokens(qret.query, qret.bindings)

\* C19: validate raises ValidationExecutionError and leaves validation_count
\* as it was when no shapes are loaded (at the start, or after
\* clear_shapes) or when there is neither a data graph argument nor a
\* loader; in every other state it returns a report and adds exactly one
\* to validation_count.
C19_ValidateRaisesOrCounts ==
    vret.op = "validate" =>
        IF shapes_data = <<>> \/ (vret.data_graph = "None" /\ ~rdf_loader)
        THEN /\ vret.raised = "ValidationExecutionError"
             /\ validation_count = vret.count_before
        ELSE /\ vret.raised = "None"
             /\ validation_count = vret.count_before + 1

\* validate raised after clear_shapes, a validation having returned before
C19_Witness ==
    /\ vret.op = "validate"
    /\ vret.raised = "ValidationExecutionError"
    /\ shapes_data = <<>>
    /\ validation_count >= 1

\* C20: the result list of validate_node(n, s) is the sub-sequence, in the
\* original order, of the full validation's results whose focus node is n
\* and, when s is given, whose source shape is s.
C20_NodeReportIsSubsequence ==
    vret.op = "node_report" =>
        LET Asked(r) ==
                /\ r.focus_node = vret.node_uri
                /\ vret.shape_uri # "None" => r.source_shape = vret.shape_uri
        IN vret.report.results = SelectSeq(vret.full_report.results, Asked)

\* a node and a shape were asked for; two results were kept, in an order
\* that shows, and one was left out
C20_Witness ==
    /\ vret.op = "node_report"
    /\ vret.shape_uri # "None"
    /\ Len(vret.report.results) >= 2
    /\ vret.report.results[1] # vret.report.results[2]
    /\ Len(vret.report.results) < Len(vret.full_report.results)

Summarised == vret.op = "get_summary"

WithSeverity(rep, severity) ==
    {i \in 1..Len(rep.results) : rep.results[i].severity = severity}

NodesOf(rep) == {rep.results[i].focus_node : i \in 1..Len(rep.results)}

\* C21: the summary of a report gives the number of its results, the number
\* of them of each of the three severities and the number of distinct focus
\* nodes; for a report built from a Violation and then a Warning on one focus
\* node it gives 2, 1, 1, 0, 1 and conforms false.
C21_SummaryCounts ==
    Summarised =>
        LET rep == vret.of
            s == vret.summary
        IN /\ s.total_results = Len(rep.results)
           /\ s.violation_count = Cardinality(WithSeverity(rep, VIOLATION))
           /\ s.warning_count = Cardinality(WithSeverity(rep, WARNING))
           /\ s.info_count = Cardinality(WithSeverity(rep, INFO))
           /\ s.affected_nodes = Cardinality(NodesOf(rep))
           /\ s.conforms = rep.conforms
           /\ (/\ Len(rep.results) = 2
               /\ rep.results[1].severity = VIOLATION
               /\ rep.results[2].severity = WARNING
               /\ rep.results[1].focus_node = rep.results[2].focus_node)
              => /\ s.total_results = 2 /\ s.violation_count = 1
                 /\ s.warning_count = 1 /\ s.info_count = 0
                 /\ s.affected_nodes = 1 /\ s.conforms = FALSE

C21_Witness ==
    /\ Summarised
    /\ Len(vret.of.results) = 2
    /\ vret.of.results[1].severity = VIOLATION
    /\ vret.of.results[2].severity = WARNING
    /\ vret.of.results[1].focus_node = vret.of.results[2].focus_node
    /\ vret.summary.affected_nodes = 1

ResultsOn(rep, node) ==
    {i \in 1..Len(rep.results) : rep.results[i].focus_node = node}

\* C22: most_affected_node is None exactly when the report has no results;
\* otherwise it is a focus node with the largest number of results and, among
\* those, the one whose first result was added earliest.
C22_MostAffectedNode ==
    Summarised =>
        LET rep == vret.of
            m == vret.summary.most_affected_node
        IN /\ (m = "None") <=> (rep.results = <<>>)
           /\ rep.results # <<>> =>
                 /\ m \in NodesOf(rep)
                 /\ \A n \in NodesOf(rep) :
                        /\ Cardinality(ResultsOn(rep, n)) <= Cardinality(ResultsOn(rep, m))
                        /\ Cardinality(ResultsOn(rep, n)) = Cardinality(ResultsOn(rep, m))
                           => SetMin(ResultsOn(rep, m)) <= SetMin(ResultsOn(rep, n))

\* a tie between two focus nodes, the second in FocusNodes' order seen first
C22_Witness ==
    /\ Summarised
    /\ Len(vret.of.results) = 2
    /\ vret.of.results[1].focus_node = "ex:n2"
    /\ vret.of.results[2].focus_node = "ex:n1"
    /\ vret.summary.most_affected_node = "ex:n2"

\* C23: every result a report holds has one of the three severities, so that
\* total_results = violation_count + warning_count + info_count.
C23_SeveritiesPartitionResults ==
    Summarised =>
        /\ \A i \in 1..Len(vret.of.results) :
               vret.of.results[i].severity \in {VIOLATION, WARNING, INFO}
        /\ vret.summary.total_results =
               vret.summary.violation_count + vret.summary.warning_count
               + vret.summary.info_count

\* A reader of the Turtle the serialiser writes: tokens, then statements.
Spaces == {" ", "\t", NL, Indent}
Punctuation == {";", ",", "."}
Delimiters == Spaces \cup Punctuation \cup {"<", ">", DQ}

Token(t, v) == [t |-> t, v |-> v]
BadToken == Token("bad", <<>>)
Name(word) == Token("name", <<word>>)
Iri(word) == Token("iri", <<word>>)

\* the first position from i on whose item is in S, Len(doc) + 1 if none
Next_in(doc, i, S) ==
    LET at == {k \in i..Len(doc) : doc[k] \in S} IN
    IF at = {} THEN Len(doc) + 1 ELSE SetMin(at)

\* the position of the quote that closes a string opened before i
ClosingQuote(doc, i) ==
    LET at == {k \in i..Len(doc) : doc[k] = DQ /\ (k = i \/ doc[k - 1] # BSL)} IN
    IF at = {} THEN Len(doc) + 1 ELSE SetMin(at)

RECURSIVE Lex(_, _)
Lex(doc, i) ==
    IF i > Len(doc) THEN <<>>
    ELSE IF doc[i] \in Spaces THEN Lex(doc, i + 1)
    ELSE IF doc[i] \in Punctuation THEN <<Token(doc[i], <<>>)>> \o Lex(doc, i + 1)
    ELSE IF doc[i] = "<"
    THEN LET k == Next_in(doc, i + 1, {">"})
             inner == SubSeq(doc, i + 1, k - 1)
         IN IF k > Len(doc) \/ \E j \in 1..Len(inner) : inner[j] \in Spaces \cup {"<", DQ}
            THEN <<BadToken>>
            ELSE <<Token("iri", inner)>> \o Lex(doc, k + 1)
    ELSE IF doc[i] = DQ
    THEN LET k == ClosingQuote(doc, i + 1)
             inner == SubSeq(doc, i + 1, k - 1)
             tagged == k + 1 <= Len(doc) /\ doc[k + 1] = "@en"
             typed == k + 2 <= Len(doc) /\ doc[k + 1] = "^^"
                      /\ doc[k + 2] \notin Delimiters
             after == IF tagged THEN k + 2 ELSE IF typed THEN k + 3 ELSE k + 1
         IN IF k > Len(doc) \/ \E j \in 1..Len(inner) : inner[j] = NL
            THEN <<BadToken>>
            ELSE <<Token("literal", inner)>> \o Lex(doc, after)
    ELSE IF doc[i] = ">" THEN <<BadToken>>
    ELSE LET k == Next_in(doc, i, Delimiters) IN
         <<Token("name", SubSeq(doc, i, k - 1))>> \o Lex(doc, k)

IsResource(tok) == tok.t \in {"name", "iri"} /\ tok.v # <<>> /\ tok.v[1] # "@prefix"
IsObject(tok) == IsResource(tok) \/ tok.t = "literal"

\* the pieces of seq between its items in S, empty pieces kept
SplitAt(seq, S) ==
    LET seps == {k \in 1..Len(seq) : seq[k] \in S}
        n == Cardinality(seps)
        Sep(m) == IF m = 0 THEN 0
                  ELSE IF m = n + 1 THEN Len(seq) + 1
                  ELSE CHOOSE k \in seps : Cardinality({j \in seps : j < k}) = m - 1
    IN [m \in 1..(n + 1) |-> SubSeq(seq, Sep(m - 1) + 1, Sep(m) - 1)]

\* a string does not run over a line break, so a text is read line by line
Tokens(doc) ==
    LET lines == SplitAt(doc, {NL}) IN
    join([n \in 1..Len(lines) |-> Lex(lines[n] \o <<NL>>, 1)], <<>>)

\* one statement without its period: "@prefix p: <iri>" or "s p o , o ; p o ;";
\* the state is what the reader expects next, the subject and predicate in
\* hand, and the triples read so far
RECURSIVE Statement(_, _, _, _, _, _)
Statement(toks, i, expect, s, p, g) ==
    IF i > Len(toks)
    THEN [ok |-> expect \in {"period", "more", "verb or end"}, triples |-> g]
    ELSE LET tok == toks[i]
             Go(e, s1, p1, g1) == Statement(toks, i + 1, e, s1, p1, g1)
             Fail == [ok |-> FALSE, triples |-> g]
         IN CASE expect = "subject" ->
                    IF tok = Name("@prefix") THEN Go("prefix", s, p, g)
                    ELSE IF IsResource(tok) THEN Go("verb", tok, p, g)
                    ELSE Fail
              [] expect = "prefix" -> IF tok.t = "name" THEN Go("namespace", s, p, g) ELSE Fail
              [] expect = "namespace" -> IF tok.t = "iri" THEN Go("period", s, p, g) ELSE Fail
              [] expect = "period" -> Fail
              [] expect = "verb" -> IF IsResource(tok) THEN Go("object", s, tok, g) ELSE Fail
              [] expect = "object" ->
                    IF IsObject(tok)
                    THEN Go("more", s, p, g \cup {[s |-> s, p |-> p, o |-> tok]})
                    ELSE Fail
              [] expect = "more" ->
                    IF tok.t = "," THEN Go("object", s, p, g)
                    ELSE IF tok.t = ";" THEN Go("verb or end", s, p, g)
                    ELSE Fail
              [] expect = "verb or end" ->
                    IF tok.t = ";" THEN Go("verb or end", s, p, g)
                    ELSE IF IsResource(tok) THEN Go("object", s, tok, g)
                    ELSE Fail

Parsed(doc) ==
    LET toks == Tokens(doc)
        pieces == SplitAt(toks, {Token(".", <<>>)})
        read == [n \in 1..(Len(pieces) - 1) |->
                    Statement(pieces[n], 1, "subject", BadToken, BadToken, {})]
    IN IF \E i \in 1..Len(toks) : toks[i] = BadToken
       THEN [ok |-> FALSE, triples |-> {}]
       ELSE [ok |-> pieces[Len(pieces)] = <<>> /\ \A n \in DOMAIN read : read[n].ok,
             triples |-> UNION {read[n].triples : n \in DOMAIN read}]

InstancesOf(g, class) == {tr.s : tr \in {x \in g : x.p = Name("a") /\ x.o = Name(class)}}
ObjectsOf(g, s, property) == {tr.o : tr \in {x \in g : x.s = s /\ x.p = Name(property)}}

Exported == vret.op = "export_report" /\ vret.raised = "None"

\* C24: the Turtle text export_report writes, read back, has one
\* sh:ValidationReport with the report's conforms, as many sh:result members
\* and sh:ValidationResult resources as the report has results, and for each
\* severity as many sh:resultSeverity statements as results of that severity.
C24_ExportReadsBack ==
    Exported =>
        LET rep == vret.of
            read == Parsed(fs[Path(vret.output_path)].content)
            g == read.triples
        IN /\ read.ok
           /\ Cardinality(InstancesOf(g, "sh:ValidationReport")) = 1
           /\ \A r \in InstancesOf(g, "sh:ValidationReport") :
                  /\ ObjectsOf(g, r, "sh:conforms")
                         = {Name(IF rep.conforms THEN "true" ELSE "false")}
                  /\ Cardinality(ObjectsOf(g, r, "sh:result")) = Len(rep.results)
           /\ Cardinality(InstancesOf(g, "sh:ValidationResult")) = Len(rep.results)
           /\ \A severity \in Severities :
                  Cardinality({x \in g : x.p = Name("sh:resultSeverity")
                                         /\ x.o = Iri(severity)})
                      = Cardinality(WithSeverity(rep, severity))

\* the same, for the reports none of whose messages holds a quote
C24_PlainExportReadsBack ==
    (Exported /\ \A i \in 1..Len(vret.of.results) :
                     \A j \in 1..Len(vret.of.results[i].message) :
                         vret.of.results[i].message[j] # DQ)
    => C24_ExportReadsBack


\* the report a caller holds as the caller reads it: a field that refers to
\* a component's list shows that list as it is now
Seen(h, shape_files, files) ==
    [h.report EXCEPT
        !.shapes_loaded = IF h.refs.shapes_loaded = "loaded_shape_files"
                          THEN shape_files ELSE @,
        !.data_sources = IF h.refs.data_sources = "loaded_files" THEN files ELSE @]

\* C25: while a caller holds a report that validate or validate_node
\* returned, no operation of the loader or the validator changes the
\* report's conforms, results, shapes_loaded or data_sources.
C25_ReturnedReportFrozen ==
    [][(held.kept /\ held' = held)
       => Seen(held', loaded_shape_files', loaded_files')
              = Seen(held, loaded_shape_files, loaded_files)]_vars

\* a report is held whose lists differ from the validator's and the loader's
C25_Witness ==
    /\ held.kept
    /\ held.report.shapes_loaded # <<>>
    /\ held.report.data_sources # <<>>
    /\ loaded_shape_files = <<>>
    /\ Len(loaded_files) > Len(held.report.data_sources)

\* C26: no operation of the query engine or of the validator changes the
\* loader's triples, loaded_files or namespaces, and no operation of the
\* loader changes the validator's shapes.
C26_ChangedOnlyByOwner ==
    [][/\ last' \in {"engine", "validator"} => UNCHANGED loaderVars
       /\ last' = "loader" => UNCHANGED <<shapes_data, loaded_shape_files>>]_vars

\* the engine has run over a loaded store beside loaded shapes, and a load
\* has run beside loaded shapes
C26_Witness ==
    /\ last = "loader"
    /\ loaded_files # <<>>
    /\ shapes_data # <<>>
    /\ qret.op = "execute" /\ qret.raised = "None"
    /\ vret.op = "validate" /\ vret.raised = "None"
    /\ vret.report.data_sources # <<>>

\* a line that states a triple: not blank, not a comment, not a declaration
IsStatement(rawline) ==
    LET line == strip(rawline, WS) IN
    /\ line # <<>>
    /\ line[1] # "#"
    /\ ~startswith(line, AtPrefix)
    /\ endswith(line, <<".">>)

TriplesIn ==
    [content \in Sources |->
        LET lines == split_sep(Text(content), NL) IN
        Cardinality({n \in 1..Len(lines) : IsStatement(lines[n])})]

\* the number of triples the loader holds
RECURSIVE TriplesHeld(_)
TriplesHeld(records) ==
    IF records = <<>> THEN 0
    ELSE TriplesIn[Head(records).content] + TriplesHeld(Tail(records))

TimeoutFor(n, default) ==
    IF n = Unset THEN default
    ELSE IF n[1] < 10000 THEN 5
    ELSE IF n[1] < 100000 THEN 15
    ELSE default

\* an execute reached its evaluator and no other component has run since
Evaluated == last = "engine" /\ qret.op = "execute" /\ qret.resolved # Unset

SetMax(S) == CHOOSE m \in S : \A n \in S : n <= m

\* the records held whose content declares the prefix
Declaring(prefix) ==
    {i \in 1..Len(triples) :
        \E d \in DeclaredIn[triples[i].content] : d.prefix = prefix}

\* every content held passes the syntax pre-validation
WellFormedHeld ==
    \A i \in 1..Len(triples) : _validate_turtle_syntax(triples[i].content) = 0

\* each registered prefix maps to the IRI of its last declaration in the
\* record loaded last among those that declare it
LastDeclarationWins ==
    \A prefix \in DOMAIN namespaces :
        /\ Declaring(prefix) # {}
        /\ \E d \in DeclaredIn[triples[SetMax(Declaring(prefix))].content] :
               d.prefix = prefix /\ d.iri = namespaces[prefix]

NeverRemoved == ret'.op # "clear" => DOMAIN namespaces \subseteq DOMAIN namespaces'

RejectedRegistersNothing ==
    (ret'.op = "load_file" /\ ret'.raised = "TurtleSyntaxError")
    => namespaces' = namespaces

\* C28: over loads of well-formed sources, each prefix of the namespace
\* table maps to the IRI of the declaration of it processed last; only clear
\* removes a prefix; a load that the syntax pre-validation rejects registers
\* nothing.
C28_LastDeclarationWins ==
    /\ [](WellFormedHeld => LastDeclarationWins)
    /\ [][NeverRemoved /\ RejectedRegistersNothing]_vars

\* C29: the loader's triples and loaded_files have the same length, and
\* the i-th content record names the i-th loaded file.
C29_RecordsMatchLoadedFiles ==
    /\ Len(triples) = Len(loaded_files)
    /\ \A i \in 1..Len(triples) : triples[i].file = loaded_files[i]

\* a load was rejected after two files had been loaded
C29_Witness ==
    /\ ret.op = "load_file"
    /\ ret.raised = "TurtleSyntaxError"
    /\ Len(loaded_files) = 2
    /\ loaded_files[1] # loaded_files[2]

\* every content record has its entry in loaded_files
StoreWhole ==
    \A i \in 1..Len(triples) :
        i <= Len(loaded_files) /\ loaded_files[i] = triples[i].file

\* what get_triples answered: every prefix is declared by a file in the
\* list of loaded files it answered with
ObservedWhole ==
    ret.op = "get_triples" =>
        \A prefix \in DOMAIN ret.namespaces :
            \E i \in 1..Len(ret.loaded_files) :
                \E d \in DeclaredIn[fs[ret.loaded_files[i]].content] : d.prefix = prefix

\* while a load_file or clear is between two of its statements, no other
\* call changes the loader or the shapes
WritersExclusive ==
    (loading.at # "idle" /\ loading' = loading)
    => UNCHANGED <<triples, loaded_files, namespaces, shapes_data, loaded_shape_files>>

\* a report's data_sources is the list of loaded files as validate found it
ReportOfOneState ==
    validation_count' = validation_count + 1
    => vret'.report.data_sources = loaded_files

\* C30: with load_file, clear, load_shapes, clear_shapes, validate and the
\* readers running in concurrent handlers, one writer's call is over before
\* another's takes effect, and no reader finds a write half done: not the
\* namespaces of a file that is not yet in loaded_files, not a content
\* record without its entry in loaded_files, not a report whose
\* data_sources is of no one state of the loader.
C30_WritesAreAtomic ==
    /\ [](StoreWhole /\ ObservedWhole)
    /\ [][WritersExclusive /\ ReportOfOneState]_vars
====
